---------------------------- MODULE Spec2Model ----------------------------
(* Verification model of the town_meetings agentic task execution core.      *)
(*                                                                         *)
(* Part 1: the conversation orchestration engine, src/task_handler.py      *)
(* (TaskHandler.run, TaskHandler.handle_tool_calls, the SIGINT handler).    *)
(* One action is one stretch of code between two suspension points (the    *)
(* awaits on the reasoning service and on a capability), or one signal     *)
(* handler invocation.                                                     *)
(*                                                                         *)
(* Part 2: the validation harness, src/tools/iterate_strategy.py           *)
(* (run_test_case), one action per numbered step of the function.          *)
(*                                                                         *)
(* Part 3: the strategy plugin registry, src/strategies/__init__.py        *)
(* (FetchingStrategy.__init_subclass__, _import_all_strategies,            *)
(* get_agendas) with the modules of src/strategies.                        *)
(*                                                                         *)
(* Part 4: saving an accepted strategy, src/strategies/save.py (parse the  *)
(* snippet, add the import, wrap the function in a class, write the file). *)
(*                                                                         *)
(* Part 5: the expected-output fixtures, src/tools/iterate_strategy.py     *)
(* (the store and test capabilities around run_test_case).                 *)
(*                                                                         *)
(* Part 6: the page scraper, src/tools/site_scraper.py (execute with the   *)
(* links and text already returned for a page).                            *)
(*                                                                         *)
(* Part 7: the workflow entry point, src/read_website.py (resume_from,     *)
(* run_workflow, the snapshot written when the run is left).               *)
(*                                                                         *)
(* Further specifications follow single parts beyond one call: SpecDepth   *)
(* (the nesting of handle_tool_calls), SpecReuse (a handler run again),    *)
(* SpecWrap (the method the synthesis pipeline emits), SpecTasks (the      *)
(* scraper across the tasks of a process), SpecRestart (the entry point    *)
(* started again).                                                         *)
EXTENDS Integers, Sequences, FiniteSets, TLC

(***************************************************************************)
(* Bounds of the model                                                     *)
(***************************************************************************)
\* most content blocks in one service response
MaxItems == 2
\* most capability executions in one run (the code has no cap)
MaxRounds == 1
\* most interrupt signals delivered during one run
MaxInterrupts == 1
\* most tokens in the free text of a response (text specification)
MaxTextLen == 5
\* most top-level names one code snippet binds (harness specification)
MaxDefs == 2
\* most records in a produced or expected list (harness specification)
MaxRecords == 2
\* most strategy classes defined after the package is loaded (registry
\* specification)
MaxClasses == 2

(***************************************************************************)
(* Inputs                                                                  *)
(***************************************************************************)
\* capability names the reasoning service may put in a tool_use block: the
\* scraper (active) and the committee list output (terminal)
ToolNames == {"scrape_webpage", "all_orgs_summary"}

\* the input payload the service puts into the invocation with call id
\* id: one value per invocation, so that the payloads of two invocations
\* are told apart
InputOf(id) == <<"input", id[1], id[2]>>

\* lexical tokens of free text: braces, a member key with its colon, a
\* scalar, white space
Tokens == {"{", "}", "k", "1", " "}

\* free texts of a text block in the engine specification
Texts == {<<"{", "}">>}

\* results a capability hands back: a JSON-encodable dict, or a value that
\* json.dumps rejects (a set, a type object, ...)
ToolResults == {"ok", "unencodable"}

\* handlers signal.getsignal may report before the run
HandlerKinds == {"default_int_handler", "SIG_DFL", "SIG_IGN"}

TaskName == "task"
SystemPrompt == "system"
TaskPrompt == <<"prompt">>

VARIABLES
    tools,          \* TaskHandler.tools: the registered capability names
    messages,       \* TaskHandler.messages: the transcript
    pc,             \* where run() is
    response,       \* content of the most recent service response
    cur,            \* index in response of the invocation being executed
    result,         \* what run() returned
    nreq,           \* service requests sent in this run
    lastreq,        \* transcript carried by the most recent request
    executed,       \* the invocations execute() was called for, in order
    returned,       \* the invocations whose input run() returned
    exc,            \* the exception that left run(), "None" when none did
    failures,       \* service requests that failed
    installed,      \* handler currently installed for SIGINT
    original,       \* TaskHandler._original_sigint_handler
    snapshots,      \* files in output/interrupted_tasks
    passed,         \* interrupts handed to the original handler
    now             \* clock read by datetime.now()

engineVars == <<tools, messages, pc, response, cur, result, nreq, lastreq,
                executed, returned, exc, failures, installed, original,
                snapshots, passed, now>>

\* run_test_case (part 2)
VARIABLES
    code,           \* the code text, by what parsing and executing it does
    values,         \* the parameter map handed to the function
    expected_output,\* the expected result
    hpc,            \* where run_test_case is
    namespace,      \* the names exec() has bound, in binding order
    stdout,         \* the captured standard output
    output,         \* the local output
    exc_info,       \* the local exc: the formatted trace, <<"None">> for None
    invoked,        \* position in namespace of the function called, 0 if none
    ran,            \* whether exec() ran any of the code text
    report,         \* the dict run_test_case returned
    escaped         \* the exception that left run_test_case, "None" if none

harnessVars == <<code, values, expected_output, hpc, namespace, stdout, output,
                 exc_info, invoked, ran, report, escaped>>

\* the strategies package (part 3)
VARIABLES
    package_dir,    \* the entries pkgutil.iter_modules yields, in its order
    rpc,            \* where the import of the package is
    next_module,    \* position in package_dir of the next entry of the loop
    imported,       \* how often each module's body was executed
    defined,        \* the strategy classes defined so far, in order
    registry,       \* FetchingStrategy.registry: key -> position in defined
    call            \* the get_agendas call made last on the present registry

registryVars == <<package_dir, rpc, next_module, imported, defined, registry,
                  call>>

\* save_fetching_strategy (part 4)
VARIABLES
    strategy_file,  \* the file strategies/<strategy_name>.py
    proposal,       \* fetch_result["code"] of the call made last
    spc,            \* where save_fetching_strategy is
    tree,           \* the syntax tree the call is working on
    save_error,     \* the exception that left the call, "None" if none
    dispatched      \* get_agendas on the written module, as Dispatch records

saveVars == <<strategy_file, proposal, spc, tree, save_error, dispatched>>

\* the fixture capabilities (part 5)
VARIABLES
    files,          \* the fixture files: <<directory, stem>> -> JSON text
    store_dir,      \* whether the directory strategies/expected exists
    fixture_call    \* the capability call made last, with how it ended

fixtureVars == <<files, store_dir, fixture_call>>

\* one Bs4SiteScraperTool instance (part 6)
VARIABLES
    previous_urls,       \* the instance's list of links handed out
    previous_text_blobs, \* the instance's list of text blocks handed out
    scrape_params,       \* the params of the execute call made last
    scraped,             \* what that call returned
    returned_links,      \* how often each link pair was put in a result
    returned_texts       \* how often each text block was put in a result

scraperVars == <<previous_urls, previous_text_blobs, scrape_params, scraped,
                 returned_links, returned_texts>>

\* the workflow entry point of read_website.py (part 7)
VARIABLES
    website_url,    \* TownWebsiteAnalyzer.website_url
    agendas_url,    \* TownWebsiteAnalyzer.agendas_url
    committees,     \* TownWebsiteAnalyzer.committees
    wpc,            \* where the process is
    position,       \* which committee the loop of run_workflow is at
    ended,          \* how run_workflow was left, and the work of finally
    latest,         \* the newest snapshot file of the output directory
    resumed,        \* the snapshot the run was resumed from
    asked           \* the user prompts and service tasks of this run

workflowVars == <<website_url, agendas_url, committees, wpc, position, ended,
                  latest, resumed, asked>>

\* the orchestration tasks of one process and the scraper they use
VARIABLES
    task,           \* the orchestration tasks started so far
    tools_from      \* where the tasks' capability table has its scraper from

taskVars == <<task, tools_from>>

\* the groups an action of one part leaves alone
outsideEngine ==
    <<harnessVars, registryVars, saveVars, fixtureVars, scraperVars,
      workflowVars,
      taskVars>>

outsideHarness ==
    <<engineVars, registryVars, saveVars, fixtureVars, scraperVars,
      workflowVars,
      taskVars>>

outsideRegistry ==
    <<engineVars, harnessVars, saveVars, fixtureVars, scraperVars,
      workflowVars,
      taskVars>>

outsideSave ==
    <<engineVars, harnessVars, registryVars, fixtureVars, scraperVars,
      workflowVars,
      taskVars>>

\* the fixture capabilities run run_test_case
outsideFixture ==
    <<engineVars, registryVars, saveVars, scraperVars,
      workflowVars,
      taskVars>>

outsideScraper ==
    <<engineVars, harnessVars, registryVars, saveVars, fixtureVars,
      workflowVars,
      taskVars>>

outsideWorkflow ==
    <<engineVars, harnessVars, registryVars, saveVars, fixtureVars,
      scraperVars,
      taskVars>>

\* the tasks use the scraper
outsideTasks ==
    <<engineVars, harnessVars, registryVars, saveVars, fixtureVars,
      workflowVars>>

vars ==
    <<engineVars, harnessVars, registryVars, saveVars, fixtureVars, scraperVars,
      workflowVars,
      taskVars>>

\* run_test_case is not running
HarnessIdle ==
    /\ code = <<>>
    /\ values = "None"
    /\ expected_output = <<>>
    /\ hpc = "idle"
    /\ namespace = <<>>
    /\ stdout = <<>>
    /\ output = <<>>
    /\ exc_info = <<"None">>
    /\ invoked = 0
    /\ ran = FALSE
    /\ report = <<>>
    /\ escaped = "None"

\* the strategies package is not imported
RegistryIdle ==
    /\ package_dir = <<>>
    /\ rpc = "idle"
    /\ next_module = 0
    /\ imported = <<>>
    /\ defined = <<>>
    /\ registry = <<>>
    /\ call = <<>>

\* the task engine is not running
EngineIdle ==
    /\ tools = {}
    /\ messages = <<>>
    /\ pc = "idle"
    /\ response = <<>>
    /\ cur = 0
    /\ result = [kind |-> "unset"]
    /\ nreq = 0
    /\ lastreq = <<>>
    /\ executed = <<>>
    /\ returned = <<>>
    /\ exc = "None"
    /\ failures = 0
    /\ installed = "default_int_handler"
    /\ original = "None"
    /\ snapshots = <<>>
    /\ passed = <<>>
    /\ now = 0

\* save_fetching_strategy is not running and has written nothing
SaveIdle ==
    /\ strategy_file = <<>>
    /\ proposal = <<>>
    /\ spc = "idle"
    /\ tree = <<>>
    /\ save_error = "None"
    /\ dispatched = <<>>

\* no fixture capability was called
FixtureIdle ==
    /\ files = <<>>
    /\ store_dir = FALSE
    /\ fixture_call = <<>>

\* no scraper instance exists
ScraperIdle ==
    /\ previous_urls = <<>>
    /\ previous_text_blobs = <<>>
    /\ scrape_params = <<>>
    /\ scraped = <<>>
    /\ returned_links = <<>>
    /\ returned_texts = <<>>

\* the workflow entry point was not started
WorkflowIdle ==
    /\ website_url = "None"
    /\ agendas_url = "None"
    /\ committees = "None"
    /\ wpc = "idle"
    /\ position = 0
    /\ ended = <<>>
    /\ latest = <<>>
    /\ resumed = <<>>
    /\ asked = {}

\* no orchestration task was started
TasksIdle ==
    /\ task = 0
    /\ tools_from = "none"

\* the parts 4 and later are not running
PipelineIdle ==
    SaveIdle /\ FixtureIdle /\ ScraperIdle /\ WorkflowIdle /\ TasksIdle

(***************************************************************************)
(* Content blocks and turns                                                *)
(***************************************************************************)
TextBlock(t) == [type |-> "text", text |-> t]

ToolUseBlock(i, n, p) == [type |-> "tool_use", id |-> i, name |-> n, input |-> p]

\* the blocks a response may hold at position idx of reply number r;
\* the service gives every invocation its own call id
Blocks(r, idx) ==
    {TextBlock(t) : t \in Texts}
    \cup {ToolUseBlock(<<r, idx>>, n, InputOf(<<r, idx>>)) : n \in ToolNames}

RECURSIVE ContentsOfLen(_, _)
ContentsOfLen(r, n) ==
    IF n = 0 THEN {<<>>}
    ELSE {Append(c, b) : c \in ContentsOfLen(r, n - 1), b \in Blocks(r, n)}

\* every content of reply number r
Contents(r) == UNION {ContentsOfLen(r, n) : n \in 0..MaxItems}

\* the caller turn run() seeds the transcript with
UserTurn(prompt) ==
    [role |-> "user",
     content |-> <<[type |-> "text", cache_control |-> "ephemeral", text |-> prompt]>>]

AssistantTurn(content) == [role |-> "assistant", content |-> content]

\* json.dumps(result): the encoded text of an encodable result
Dumps(r) == <<"json", r>>

\* whether json.dumps accepts the value
Encodable(r) == r # "unencodable"

ToolResultTurn(id, r) ==
    [role |-> "user",
     content |-> <<[type |-> "tool_result", tool_use_id |-> id, content |-> Dumps(r)]>>]

(***************************************************************************)
(* handle_tool_calls: the scan of a response                               *)
(***************************************************************************)
\* Tool.is_structured_output of the class registered under a name
IsStructuredOutput(n) == n = "all_orgs_summary"

\* mutant: the table is indexed without the membership test
RegisteredAlways(n) == TRUE

\* tool_name in self.tools
Registered(n) == n \in tools

IsToolUse(item) == item.type = "tool_use"

\* tool_call_found after the loop has run to its end
ToolCallFound(content) == \E i \in DOMAIN content : IsToolUse(content[i])

\* mutant: the loop acts on the last registered invocation
LoopExitLast(content) ==
    LET hits == {i \in DOMAIN content :
                    IsToolUse(content[i]) /\ content[i].name \in tools}
    IN IF hits = {} THEN 0 ELSE CHOOSE i \in hits : \A j \in hits : j <= i

\* the block at which the for loop leaves the function: the first tool_use
\* block whose name is registered; 0 when the loop runs to its end
LoopExit(content) ==
    LET hits == {i \in DOMAIN content :
                    IsToolUse(content[i]) /\ Registered(content[i].name)}
    IN IF hits = {} THEN 0 ELSE CHOOSE i \in hits : \A j \in hits : i <= j

\* mutant: the terminal test is missing
ReturnsInputNever(content, k) == FALSE

\* line 136: whether the loop returns the input of block k instead of
\* executing it
ReturnsInput(content, k) == IsStructuredOutput(content[k].name)

(***************************************************************************)
(* handle_tool_calls: the reply without invocation                         *)
(***************************************************************************)
RECURSIVE JoinTexts(_)
\* " ".join(texts)
JoinTexts(ts) ==
    IF ts = <<>> THEN <<>>
    ELSE IF Len(ts) = 1 THEN ts[1]
    ELSE ts[1] \o <<" ">> \o JoinTexts(Tail(ts))

RECURSIVE TextsOf(_)
\* [item.text for item in content if item.type == "text"]
TextsOf(content) ==
    IF content = <<>> THEN <<>>
    ELSE IF content[1].type = "text"
         THEN <<content[1].text>> \o TextsOf(Tail(content))
         ELSE TextsOf(Tail(content))

FinalContent(content) == JoinTexts(TextsOf(content))

\* mutant: a lazy star, the span ends at the first closing brace
JsonMatchLazy(s) ==
    LET opens == {i \in DOMAIN s : s[i] = "{"}
    IN IF opens = {} THEN <<>>
       ELSE LET a == CHOOSE i \in opens : \A j \in opens : i <= j
                closes == {i \in DOMAIN s : s[i] = "}" /\ i > a}
            IN IF closes = {} THEN <<>>
               ELSE SubSeq(s, a, CHOOSE i \in closes : \A j \in closes : i <= j)

\* re.search(r"\{.*\}", s, re.DOTALL): the span from the first opening brace
\* to the last closing brace (the star is greedy); <<>> when there is no match
JsonMatch(s) ==
    LET opens == {i \in DOMAIN s : s[i] = "{"}
        closes == {i \in DOMAIN s : s[i] = "}"}
    IN IF opens = {} \/ closes = {} THEN <<>>
       ELSE LET a == CHOOSE i \in opens : \A j \in opens : i <= j
                b == CHOOSE i \in closes : \A j \in closes : j <= i
            IN IF a < b THEN SubSeq(s, a, b) ELSE <<>>

\* the text without its white space, which the JSON decoder skips
Strip(s) == SelectSeq(s, LAMBDA t : t # " ")

RECURSIVE IsObject(_)
\* the grammar json.loads accepts, on the token alphabet:
\*   object ::= { } | { k value }      value ::= 1 | object
IsObject(s) ==
    /\ Len(s) >= 2
    /\ s[1] = "{"
    /\ s[Len(s)] = "}"
    /\ \/ Len(s) = 2
       \/ /\ Len(s) >= 4
          /\ s[2] = "k"
          /\ LET v == SubSeq(s, 3, Len(s) - 1)
             IN v = <<"1">> \/ IsObject(v)

\* whether json.loads(text) returns (it raises otherwise)
Loads_ok(text) == IsObject(Strip(text))

\* the dict json.loads(text) returns: white space is not part of the value
Loads(text) == Strip(text)

\* lines 177-192: the value returned for a reply without invocation
FinalResult(content) ==
    LET final_content == FinalContent(content)
        json_match == JsonMatch(final_content)
    IN IF json_match # <<>>
       THEN IF Loads_ok(json_match)
            THEN [kind |-> "json", value |-> Loads(json_match)]
            ELSE [kind |-> "summary", summary |-> final_content, error |-> TRUE]
       ELSE [kind |-> "summary", summary |-> final_content, error |-> FALSE]

(***************************************************************************)
(* Interrupt handling                                                      *)
(***************************************************************************)
\* truth value of a handler object: signal.SIG_DFL is the enum member 0 and
\* None is None; SIG_IGN (1) and functions are true
Truthy(h) == h \notin {"SIG_DFL", "None"}

\* whether the handler object can be called
Callable(h) == h \in {"default_int_handler", "task"}

\* the finally block of run(): the handler installed after it
Restored == IF Truthy(original) THEN original ELSE installed

\* whether json.dump can encode a turn: caller and tool-result turns are
\* dicts of strings, an assistant turn holds the content block objects of
\* the service response, which the encoder refuses with a TypeError
TurnEncodable(turn) == turn.role = "user"

\* the turns json.dump writes before it stops
EncodedPrefix(ms) ==
    LET bad == {i \in DOMAIN ms : ~TurnEncodable(ms[i])}
    IN IF bad = {} THEN ms
       ELSE SubSeq(ms, 1, (CHOOSE i \in bad : \A j \in bad : i <= j) - 1)

\* _save_messages: the file left in output/interrupted_tasks at time ts; the
\* keys are written in order, so a failure inside "messages" leaves a file
\* without the later turns and without interrupted_at (0)
SaveMessages(ts) ==
    LET written == EncodedPrefix(messages)
        complete == written = messages
    IN [file |-> <<TaskName, ts>>,
        name |-> TaskName,
        system_prompt |-> SystemPrompt,
        messages |-> written,
        interrupted_at |-> IF complete THEN ts ELSE 0,
        complete |-> complete]

(***************************************************************************)
(* The engine                                                              *)
(***************************************************************************)
Init ==
    /\ tools \in SUBSET ToolNames
    /\ messages = <<>>
    /\ pc = "idle"
    /\ response = <<>>
    /\ cur = 0
    /\ result = [kind |-> "unset"]
    /\ nreq = 0
    /\ lastreq = <<>>
    /\ executed = <<>>
    /\ returned = <<>>
    /\ exc = "None"
    /\ failures = 0
    /\ installed \in HandlerKinds
    /\ original = "None"
    /\ snapshots = <<>>
    /\ passed = <<>>
    /\ now = 0
    /\ HarnessIdle
    /\ RegistryIdle
    /\ PipelineIdle

\* run(), lines 78-108: seed the transcript, install the handler, send the
\* first request
Run ==
    /\ pc = "idle"
    /\ messages' = <<UserTurn(TaskPrompt)>>
    /\ original' = installed
    /\ installed' = "task"
    /\ nreq' = nreq + 1
    /\ lastreq' = messages'
    /\ pc' = "awaiting"
    /\ UNCHANGED <<tools, response, cur, result, executed, returned, exc,
                   failures, snapshots, passed, now>>
    /\ UNCHANGED outsideEngine

\* mutant: a failed request is sent again
RequestFailsRetry ==
    /\ pc = "awaiting"
    /\ failures < 2
    /\ failures' = failures + 1
    /\ nreq' = nreq + 1
    /\ lastreq' = messages
    /\ UNCHANGED <<tools, messages, pc, response, cur, result, executed, returned,
                   exc, installed, original, snapshots, passed, now>>
    /\ UNCHANGED outsideEngine

\* lines 98-115 and 158-174: the request raises; nothing catches it, the
\* finally block runs and the error leaves run()
RequestFails ==
    /\ pc = "awaiting"
    /\ failures' = failures + 1
    /\ exc' = "APIError"
    /\ pc' = "raised"
    /\ installed' = Restored
    /\ UNCHANGED <<tools, messages, response, cur, result, nreq, lastreq,
                   executed, returned, original, snapshots, passed, now>>
    /\ UNCHANGED outsideEngine

\* lines 136-137: the loop reaches an invocation of a registered terminal
\* capability and returns its input
ReturnStructuredOutput ==
    /\ pc = "awaiting"
    /\ \E content \in Contents(nreq) :
        LET k == LoopExit(content) IN
        /\ k # 0
        /\ ReturnsInput(content, k)
        /\ response' = content
        /\ result' = [kind |-> "payload", value |-> content[k].input]
        /\ returned' = Append(returned, content[k])
    /\ pc' = "returned"
    /\ installed' = Restored
    /\ UNCHANGED <<tools, messages, cur, nreq, lastreq, executed, exc, failures,
                   original, snapshots, passed, now>>
    /\ UNCHANGED outsideEngine

\* line 139: the loop reaches an invocation of a registered active
\* capability and calls its execute
CallExecute ==
    /\ pc = "awaiting"
    /\ Len(executed) < MaxRounds
    /\ \E content \in Contents(nreq) :
        LET k == LoopExit(content) IN
        /\ k # 0
        /\ ~ReturnsInput(content, k)
        /\ response' = content
        /\ cur' = k
        /\ executed' = Append(executed, content[k])
    /\ pc' = "executing"
    /\ UNCHANGED <<tools, messages, result, nreq, lastreq, returned, exc,
                   failures, installed, original, snapshots, passed, now>>
    /\ UNCHANGED outsideEngine

\* lines 177-192 for one reply that holds no invocation
ReturnFinalOf(content) ==
    /\ pc = "awaiting"
    /\ ~ToolCallFound(content)
    /\ response' = content
    /\ result' = FinalResult(content)
    /\ pc' = "returned"
    /\ installed' = Restored
    /\ UNCHANGED <<tools, messages, cur, nreq, lastreq, executed, returned, exc,
                   failures, original, snapshots, passed, now>>
    /\ UNCHANGED outsideEngine

\* lines 177-192: the reply holds no invocation
ReturnFinal ==
    /\ pc = "awaiting"
    /\ \E content \in Contents(nreq) : ReturnFinalOf(content)

\* the loop runs to its end with tool_call_found set: no return statement
\* is reached and the function returns None
FallThrough ==
    /\ pc = "awaiting"
    /\ \E content \in Contents(nreq) :
        /\ ToolCallFound(content)
        /\ LoopExit(content) = 0
        /\ response' = content
    /\ result' = [kind |-> "None"]
    /\ pc' = "returned"
    /\ installed' = Restored
    /\ UNCHANGED <<tools, messages, cur, nreq, lastreq, executed, returned, exc,
                   failures, original, snapshots, passed, now>>
    /\ UNCHANGED outsideEngine

\* mutant: the request goes out before the two turns are appended
AppendAndRequestStale ==
    /\ pc = "executing"
    /\ ~IsStructuredOutput(response[cur].name)
    /\ \E r \in ToolResults :
        /\ Encodable(r)
        /\ messages' = messages \o <<AssistantTurn(response),
                                     ToolResultTurn(response[cur].id, r)>>
    /\ nreq' = nreq + 1
    /\ lastreq' = messages
    /\ pc' = "awaiting"
    /\ UNCHANGED <<tools, response, cur, result, executed, returned, exc,
                   failures, installed, original, snapshots, passed, now>>
    /\ UNCHANGED outsideEngine

\* lines 141-169: execute returned an encodable result; both turns are
\* appended and the next request goes out with the extended transcript
AppendAndRequest ==
    /\ pc = "executing"
    /\ ~IsStructuredOutput(response[cur].name)
    /\ \E r \in ToolResults :
        /\ Encodable(r)
        /\ messages' = messages \o <<AssistantTurn(response),
                                     ToolResultTurn(response[cur].id, r)>>
    /\ nreq' = nreq + 1
    /\ lastreq' = messages'
    /\ pc' = "awaiting"
    /\ UNCHANGED <<tools, response, cur, result, executed, returned, exc,
                   failures, installed, original, snapshots, passed, now>>
    /\ UNCHANGED outsideEngine

\* lines 141-149: execute returned a value json.dumps refuses; the assistant
\* turn is already appended when the TypeError leaves run()
EncodeFails ==
    /\ pc = "executing"
    /\ ~IsStructuredOutput(response[cur].name)
    /\ \E r \in ToolResults : ~Encodable(r)
    /\ messages' = Append(messages, AssistantTurn(response))
    /\ exc' = "TypeError"
    /\ pc' = "raised"
    /\ installed' = Restored
    /\ UNCHANGED <<tools, response, cur, result, nreq, lastreq, executed,
                   returned, failures, original, snapshots, passed, now>>
    /\ UNCHANGED outsideEngine

\* line 139: execute raises (a terminal capability always does)
ExecuteRaises ==
    /\ pc = "executing"
    /\ exc' = "Exception"
    /\ pc' = "raised"
    /\ installed' = Restored
    /\ UNCHANGED <<tools, messages, response, cur, result, nreq, lastreq,
                   executed, returned, failures, original, snapshots, passed, now>>
    /\ UNCHANGED outsideEngine

\* _sigint_handler, lines 71-76, on a SIGINT during the run: save, then
\* restore and call the original handler when it is a true value.
\* default_int_handler raises KeyboardInterrupt; calling SIG_IGN, an enum
\* member, raises TypeError
SigintHandler ==
    /\ pc \in {"awaiting", "executing"}
    /\ installed = "task"
    /\ now < MaxInterrupts
    /\ now' = now + 1
    /\ snapshots' = Append(snapshots, SaveMessages(now'))
    /\ IF Truthy(original)
       THEN /\ installed' = original
            /\ pc' = "raised"
            /\ exc' = IF Callable(original) THEN "KeyboardInterrupt"
                                            ELSE "TypeError"
            /\ passed' = IF Callable(original)
                         THEN Append(passed, [at |-> now',
                                              turns |-> messages,
                                              saved |-> Len(snapshots')])
                         ELSE passed
       ELSE UNCHANGED <<installed, pc, exc, passed>>
    /\ UNCHANGED <<tools, messages, response, cur, result, nreq, lastreq,
                   executed, returned, failures, original>>
    /\ UNCHANGED outsideEngine

Next ==
    \/ Run
    \/ RequestFails
    \/ ReturnStructuredOutput
    \/ CallExecute
    \/ ReturnFinal
    \/ FallThrough
    \/ AppendAndRequest
    \/ EncodeFails
    \/ ExecuteRaises
    \/ SigintHandler

Spec == Init /\ [][Next]_vars

(***************************************************************************)
(* The nesting of handle_tool_calls                                        *)
(***************************************************************************)
\* line 174 handles the next response by calling handle_tool_calls from
\* inside handle_tool_calls: every completed execution leaves one more
\* coroutine frame on the stack. The interpreter refuses a frame beyond
\* sys.getrecursionlimit() (1000 unless changed, some 986 rounds under
\* asyncio.run); the model puts that depth where its rounds end
RecursionLimit == MaxRounds

\* handle_tool_calls of the response to request nreq is nested under
\* RecursionLimit earlier ones and reaches an invocation of a registered
\* active capability: the call of execute (line 139) needs frames the
\* interpreter does not grant, RecursionError leaves run()
RecursionFails ==
    /\ pc = "awaiting"
    /\ Len(executed) = RecursionLimit
    /\ \E content \in Contents(nreq) :
        LET k == LoopExit(content) IN
        /\ k # 0
        /\ ~ReturnsInput(content, k)
        /\ response' = content
        /\ cur' = k
    /\ exc' = "RecursionError"
    /\ pc' = "raised"
    /\ installed' = Restored
    /\ UNCHANGED <<tools, messages, result, nreq, lastreq, executed, returned,
                   failures, original, snapshots, passed, now>>
    /\ UNCHANGED outsideEngine

NextDepth ==
    \/ Run
    \/ RequestFails
    \/ ReturnStructuredOutput
    \/ CallExecute
    \/ ReturnFinal
    \/ FallThrough
    \/ AppendAndRequest
    \/ EncodeFails
    \/ ExecuteRaises
    \/ SigintHandler
    \/ RecursionFails

\* the engine with the interpreter's limit on nested calls
SpecDepth == Init /\ [][NextDepth]_vars

(***************************************************************************)
(* A handler that is run more than once                                    *)
(***************************************************************************)
\* run(), lines 78-108, called on a handler whose earlier run has ended:
\* the transcript is assigned anew, the handler found installed is kept as
\* original and the task's handler is installed; the request count and the
\* logs of executions and results start again for the new run
RunAgain ==
    /\ pc \in {"returned", "raised"}
    /\ messages' = <<UserTurn(TaskPrompt)>>
    /\ original' = installed
    /\ installed' = "task"
    /\ nreq' = 1
    /\ lastreq' = messages'
    /\ pc' = "awaiting"
    /\ response' = <<>>
    /\ cur' = 0
    /\ result' = [kind |-> "unset"]
    /\ executed' = <<>>
    /\ returned' = <<>>
    /\ exc' = "None"
    /\ failures' = 0
    /\ UNCHANGED <<tools, snapshots, passed, now>>
    /\ UNCHANGED outsideEngine

\* _sigint_handler, lines 71-76, when the handler kept as original is the
\* task's own _sigint_handler (an earlier run left it installed): it saves,
\* installs and calls itself again and again until the interpreter raises
\* RecursionError, which leaves run(); the one file written here stands
\* for the files of all the nested calls
SigintHandlerAgain ==
    /\ pc \in {"awaiting", "executing"}
    /\ installed = "task"
    /\ original = "task"
    /\ now < MaxInterrupts
    /\ now' = now + 1
    /\ snapshots' = Append(snapshots, SaveMessages(now'))
    /\ installed' = "task"
    /\ pc' = "raised"
    /\ exc' = "RecursionError"
    /\ UNCHANGED <<tools, messages, response, cur, result, nreq, lastreq,
                   executed, returned, failures, original, passed>>
    /\ UNCHANGED outsideEngine

\* _sigint_handler when the handler kept as original is not the task's own
SigintHandlerOther == original # "task" /\ SigintHandler

NextReuse ==
    \/ Run
    \/ RunAgain
    \/ RequestFails
    \/ ReturnStructuredOutput
    \/ CallExecute
    \/ ReturnFinal
    \/ FallThrough
    \/ AppendAndRequest
    \/ EncodeFails
    \/ ExecuteRaises
    \/ SigintHandlerOther
    \/ SigintHandlerAgain

\* runs of one handler, one after the other
SpecReuse == Init /\ [][NextReuse]_vars

(***************************************************************************)
(* The reply without invocation, over every short free text                *)
(***************************************************************************)
\* token sequences of at most n tokens
TokenSeqs(n) == UNION {[1..k -> Tokens] : k \in 0..n}

\* the replies of text blocks only whose joined text is t: t in one block,
\* or two blocks around one of its spaces; the empty reply for the empty t
TextContents(t) ==
    {<<TextBlock(t)>>}
    \cup {<<TextBlock(SubSeq(t, 1, k - 1)), TextBlock(SubSeq(t, k + 1, Len(t)))>> :
            k \in {i \in DOMAIN t : t[i] = " "}}
    \cup (IF t = <<>> THEN {<<>>} ELSE {})

\* a run whose first request is in flight
InitText ==
    /\ tools \in SUBSET ToolNames
    /\ messages = <<UserTurn(TaskPrompt)>>
    /\ pc = "awaiting"
    /\ response = <<>>
    /\ cur = 0
    /\ result = [kind |-> "unset"]
    /\ nreq = 1
    /\ lastreq = messages
    /\ executed = <<>>
    /\ returned = <<>>
    /\ exc = "None"
    /\ failures = 0
    /\ installed = "task"
    /\ original = "default_int_handler"
    /\ snapshots = <<>>
    /\ passed = <<>>
    /\ now = 0
    /\ HarnessIdle
    /\ RegistryIdle
    /\ PipelineIdle

\* a reply without invocation whose joined text has at most MaxTextLen
\* tokens
TextReply ==
    /\ pc = "awaiting"
    /\ \E t \in TokenSeqs(MaxTextLen) :
           \E content \in TextContents(t) : ReturnFinalOf(content)

NextText == TextReply

SpecText == InitText /\ [][NextText]_vars

(***************************************************************************)
(* Properties of the engine                                                *)
(***************************************************************************)
Range(f) == {f[i] : i \in DOMAIN f}

HasToolUse(content) == \E k \in DOMAIN content : content[k].type = "tool_use"

\* index of the first invocation of a reply, 0 when it has none
FirstToolUse(content) ==
    LET us == {k \in DOMAIN content : content[k].type = "tool_use"}
    IN IF us = {} THEN 0 ELSE CHOOSE k \in us : \A j \in us : k <= j

\* index of the first invocation whose name is in the capability table
FirstKnown(content) ==
    LET us == {k \in DOMAIN content :
                  content[k].type = "tool_use" /\ content[k].name \in tools}
    IN IF us = {} THEN 0 ELSE CHOOSE k \in us : \A j \in us : k <= j

PayloadOf(block) == [kind |-> "payload", value |-> block.input]

IsToolResultTurn(turn) ==
    turn.role = "user" /\ turn.content[1].type = "tool_result"

\* how often an invocation was executed or returned
Consumed(block) ==
    Cardinality({i \in DOMAIN executed : executed[i] = block})
    + Cardinality({i \in DOMAIN returned : returned[i] = block})

\* C1: execute is never called on a capability whose is_structured_output()
\* is true; when the invocation the loop reaches names such a capability,
\* run returns that invocation's input unchanged
C1_TerminalNeverExecuted ==
    /\ \A i \in DOMAIN executed : ~IsStructuredOutput(executed[i].name)
    /\ pc = "executing" => ~IsStructuredOutput(response[cur].name)
    /\ LET g == FirstKnown(response) IN
       (pc = "returned" /\ g # 0 /\ IsStructuredOutput(response[g].name))
           => result = PayloadOf(response[g])

\* C1 witness: a run that executed a capability and then returned the
\* input of a terminal one
C1_Witness ==
    /\ pc = "returned"
    /\ result.kind = "payload"
    /\ Len(executed) >= 1
    /\ Len(returned) = 1

\* C2 as stated: every assistant turn is directly followed by the
\* tool-result turn of the invocation executed for it, the transcript never
\* ends with an assistant turn, and every tool-result turn directly follows
\* an assistant turn
C2_TurnsPaired ==
    /\ \A i \in DOMAIN messages :
          messages[i].role = "assistant" =>
              /\ i < Len(messages)
              /\ IsToolResultTurn(messages[i + 1])
              /\ (i \div 2) \in DOMAIN executed
              /\ messages[i + 1].content[1].tool_use_id = executed[i \div 2].id
    /\ \A i \in DOMAIN messages :
          IsToolResultTurn(messages[i]) =>
              i > 1 /\ messages[i - 1].role = "assistant"

\* C3 as stated: a normal return yields the input of a terminal invocation
\* of the last reply, or an object derived from the free text of a last
\* reply without invocation; never None
C3_ResultNeverNone ==
    pc = "returned" =>
        \/ \E k \in DOMAIN response :
              /\ response[k].type = "tool_use"
              /\ IsStructuredOutput(response[k].name)
              /\ result = PayloadOf(response[k])
        \/ /\ ~HasToolUse(response)
           /\ result.kind \in {"json", "summary"}

\* C4 as stated: run returns normally only when the last reply invokes a
\* terminal capability or holds no invocation; otherwise the engine is
\* awaiting the service or dispatching a capability
C4_StopsOnlyOnTerminalOrText ==
    /\ pc = "returned" =>
          \/ \E k \in DOMAIN response :
                response[k].type = "tool_use" /\ IsStructuredOutput(response[k].name)
          \/ ~HasToolUse(response)
    /\ (pc \notin {"idle", "returned", "raised"}) => pc \in {"awaiting", "executing"}

\* C5 as stated, in what it says of the invocation acted on: the
\* invocation that is executed, or whose input is returned, is the first
\* invocation of the reply, and no later one is executed or returned
C5_FirstInvocationOnly ==
    LET f == FirstToolUse(response) IN
    /\ pc = "executing" => cur = f
    /\ (pc = "returned" /\ result.kind = "payload") =>
          returned = <<response[f]>>
    /\ \A k \in DOMAIN response :
          (k # f /\ response[k].type = "tool_use") => Consumed(response[k]) = 0

\* C5 amended: the engine acts on the first invocation whose name is in the
\* capability table and on no other: a terminal one is returned, an active
\* one is executed, every other invocation of the reply is neither
C5_FirstKnownInvocationOnly ==
    LET g == FirstKnown(response) IN
    /\ pc = "executing" =>
          /\ g # 0
          /\ cur = g
          /\ ~IsStructuredOutput(response[g].name)
          /\ executed[Len(executed)] = response[g]
    /\ (pc = "returned" /\ g # 0) =>
          /\ IsStructuredOutput(response[g].name)
          /\ result = PayloadOf(response[g])
          /\ returned = <<response[g]>>
    /\ g # 0 => Consumed(response[g]) = 1
    /\ \A k \in DOMAIN response :
          (k # g /\ response[k].type = "tool_use") => Consumed(response[k]) = 0

\* C5 witness: the invocation acted on is not the first of its reply, which
\* names an unknown capability
C5_Witness ==
    /\ pc = "executing"
    /\ cur = 2
    /\ response[1].type = "tool_use"
    /\ response[1].name \notin tools

\* C6 as stated, for the invocations that name a registered capability:
\* when the engine has sent its next request or has returned, each of them
\* has been consumed (executed, or returned as the result) exactly once
C6_ConsumedExactlyOnce ==
    (pc = "returned" \/ (pc = "awaiting" /\ nreq > 1)) =>
        \A k \in DOMAIN response :
            (response[k].type = "tool_use" /\ response[k].name \in tools)
                => Consumed(response[k]) = 1

\* C7: an invocation whose name is not in the capability table is ignored:
\* nothing is executed or returned for it, no tool-result turn answers it,
\* and a reply whose invocations are all unknown makes run return with no
\* exception, no new turn and no new request
C7_UnknownIgnored ==
    /\ [](\A b \in Range(executed) \cup Range(returned) : b.name \in tools)
    /\ [](\A i \in DOMAIN messages :
             IsToolResultTurn(messages[i]) =>
                 \E b \in Range(executed) :
                     b.id = messages[i].content[1].tool_use_id /\ b.name \in tools)
    /\ [][(/\ pc = "awaiting"
           /\ pc' \in {"returned", "executing"}
           /\ HasToolUse(response')
           /\ \A k \in DOMAIN response' :
                 response'[k].type = "tool_use" => response'[k].name \notin tools)
          => /\ pc' = "returned"
             /\ exc' = "None"
             /\ UNCHANGED <<messages, nreq, lastreq, executed, returned>>]_vars

\* C7 witness: run has returned on a reply that invoked an unknown name
C7_Witness ==
    /\ pc = "returned"
    /\ \E k \in DOMAIN response :
          response[k].type = "tool_use" /\ response[k].name \notin tools
    /\ exc = "None"
    /\ returned = <<>>

\* the free text holds a structured object: some span of it is one
ContainsObject(s) ==
    \E i \in DOMAIN s : \E j \in DOMAIN s :
        i < j /\ s[i] = "{" /\ s[j] = "}" /\ IsObject(Strip(SubSeq(s, i, j)))

\* the span from the first opening to the last closing brace, <<>> if none
BraceSpan(s) ==
    LET ps == {q \in (DOMAIN s) \X (DOMAIN s) :
                  /\ q[1] < q[2]
                  /\ s[q[1]] = "{"
                  /\ s[q[2]] = "}"
                  /\ \A i \in DOMAIN s : s[i] = "{" => q[1] <= i
                  /\ \A i \in DOMAIN s : s[i] = "}" => i <= q[2]}
    IN IF ps = {} THEN <<>>
       ELSE LET q == CHOOSE q \in ps : TRUE IN SubSeq(s, q[1], q[2])

\* C8 as stated: for a reply without invocation the engine returns the
\* structured object embedded in the text whenever the text holds one, and
\* otherwise a payload whose summary is the joined text; it never raises
C8_ObjectWheneverPresent ==
    pc = "returned" =>
        LET s == FinalContent(response) IN
        /\ exc = "None"
        /\ IF ContainsObject(s)
           THEN /\ result.kind = "json"
                /\ \E i \in DOMAIN s : \E j \in DOMAIN s :
                      /\ i <= j
                      /\ IsObject(Strip(SubSeq(s, i, j)))
                      /\ result.value = Strip(SubSeq(s, i, j))
           ELSE /\ result.kind = "summary"
                /\ result.summary = s

\* C8 amended: the engine returns the object parsed from the span between
\* the first opening and the last closing brace of the joined text when
\* that span is valid JSON; with no such span it returns the joined text as
\* summary; with a span that is not valid JSON it returns the joined text as
\* summary together with an error; it never raises
C8_ObjectWhenSpanParses ==
    pc = "returned" =>
        LET s == FinalContent(response)
            span == BraceSpan(s)
        IN /\ exc = "None"
           /\ IF span # <<>> /\ IsObject(Strip(span))
              THEN result = [kind |-> "json", value |-> Strip(span)]
              ELSE result = [kind |-> "summary", summary |-> s,
                             error |-> (span # <<>>)]

\* C8 witness: the text holds an object and the engine returned the
\* fallback with an error
C8_Witness ==
    /\ pc = "returned"
    /\ result.kind = "summary"
    /\ result.error
    /\ ContainsObject(FinalContent(response))

\* C9 as stated: for every interrupt handed to the previous handler, a
\* snapshot with the task name, the system instruction, every turn of the
\* transcript and the timestamp was written before
C9_SnapshotBeforeReraise ==
    \A i \in DOMAIN passed :
        \E j \in 1..passed[i].saved :
            /\ j \in DOMAIN snapshots
            /\ snapshots[j].name = TaskName
            /\ snapshots[j].system_prompt = SystemPrompt
            /\ snapshots[j].messages = passed[i].turns
            /\ snapshots[j].interrupted_at = passed[i].at

\* C10: after a service request has failed, no request is sent and no
\* capability executed, the error has left run(), and every request was
\* sent once: one for the seeded transcript and one per appended tool result
C10_RequestFailurePropagates ==
    /\ [](failures >= 1 => (pc = "raised" /\ exc = "APIError" /\ failures = 1))
    /\ [](pc # "idle" =>
             nreq = 1 + Cardinality({i \in DOMAIN messages :
                                        IsToolResultTurn(messages[i])}))
    /\ [][failures >= 1 => UNCHANGED <<nreq, lastreq, executed, messages>>]_vars

\* C10 witness: the request that followed a tool result failed
C10_Witness ==
    /\ failures = 1
    /\ nreq = 2
    /\ pc = "raised"
    /\ Len(executed) = 1

\* C31: within one run at most one service request or capability execution
\* is in flight: while a request is in flight every execution that was
\* started has completed and the request carries the whole transcript;
\* while a capability executes every request sent has been answered; an
\* execution starts only in the step that receives the response invoking
\* it, and a further request is sent only in the step that completes the
\* execution and appends the assistant turn and its result
C31_OneInFlight ==
    /\ [](pc = "awaiting" => (nreq = Len(executed) + 1 /\ lastreq = messages))
    /\ [](pc = "executing" =>
             /\ nreq = Len(executed)
             /\ cur \in DOMAIN response
             /\ executed[Len(executed)] = response[cur])
    /\ [][executed' # executed =>
             /\ pc = "awaiting"
             /\ pc' = "executing"
             /\ nreq' = nreq
             /\ messages' = messages
             /\ executed' = Append(executed, response'[cur'])]_vars
    /\ [][(nreq' # nreq /\ pc # "idle") =>
             /\ pc = "executing"
             /\ pc' = "awaiting"
             /\ executed' = executed
             /\ nreq' = nreq + 1
             /\ \E r \in ToolResults :
                   messages' = messages \o <<AssistantTurn(response),
                                              ToolResultTurn(response[cur].id, r)>>
             /\ lastreq' = messages']_vars

\* C31 witness: the second request of a run is in flight, after one
\* completed execution
C31_Witness ==
    /\ pc = "awaiting"
    /\ nreq = 2
    /\ Len(executed) = 1
    /\ Len(lastreq) = 3

\* the response received last invokes, at the block the loop stops at, a
\* registered active capability
AnsweredActive ==
    LET k == LoopExit(response) IN k # 0 /\ ~IsStructuredOutput(response[k].name)

\* ways a run ends that the service's answers do not decide: a request
\* that fails, a capability that raises or returns what cannot be encoded,
\* an interrupt
OutsideCauses == {"APIError", "Exception", "TypeError", "KeyboardInterrupt"}

\* C32 as stated: the engine has no round cap. A run whose requests were
\* all answered, whose executions all completed and which was not
\* interrupted ends only by returning, on the first response that is not
\* an invocation of a registered active capability, after exactly one
\* execution per earlier response and one request more than that; a
\* response that invokes an active capability never ends the run
C32_NoRoundCap ==
    /\ pc = "returned" =>
          /\ ~AnsweredActive
          /\ nreq = Len(executed) + 1
          /\ Len(messages) = 1 + 2 * Len(executed)
    /\ pc = "raised" => exc \in OutsideCauses
    /\ (pc \in {"returned", "raised"} /\ exc \notin OutsideCauses) =>
          ~AnsweredActive

\* whether the sequence longer starts with the sequence shorter
StartsWith(longer, shorter) ==
    /\ Len(shorter) <= Len(longer)
    /\ SubSeq(longer, 1, Len(shorter)) = shorter

\* a step leaves the transcript alone, or ends an execution and appends
\* two turns
KeepsOrAppendsTwo ==
    \/ messages' = messages
    \/ /\ pc = "executing"
       /\ StartsWith(messages', messages)
       /\ Len(messages') = Len(messages) + 2

\* C33 as stated: every run starts with a transcript that is exactly the
\* caller turn with the task prompt, whatever an earlier run of the handler
\* left; during the run a step either leaves the transcript alone or
\* completes one execution and appends two turns to it, so that its length
\* is 1 + 2k after k completed executions
C33_TranscriptAppendOnly ==
    /\ [][(pc \notin {"awaiting", "executing"} /\ pc' = "awaiting") =>
             messages' = <<UserTurn(TaskPrompt)>>]_vars
    /\ [][(pc \in {"awaiting", "executing"}) => KeepsOrAppendsTwo]_vars
    /\ [](pc # "idle" => Len(messages) % 2 = 1)

\* C34 as stated: every interrupt that arrived during the run was handed
\* to the handler installed before the run, whether or not the snapshot
\* was written whole and whatever that handler was
C34_InterruptAlwaysPassedOn ==
    /\ Len(passed) = now
    /\ \A i \in DOMAIN passed : passed[i].saved \in DOMAIN snapshots

\* C37 as stated: after run has returned or raised, the installed SIGINT
\* handler is the one that was installed immediately before the run, for
\* every kind of handler
C37_HandlerLeftAsFound ==
    pc \in {"returned", "raised"} => installed = original

(***************************************************************************)
(* Part 2: run_test_case                                                   *)
(***************************************************************************)
\* the records a strategy function emits
Records == {"r1", "r2"}

\* Python values a snippet's function returns and a fixture holds
None == [type |-> "NoneType"]

ListValue(s) == [type |-> "list", items |-> s]

\* the {} the repository's own test passes as expected result
EmptyDict == [type |-> "dict"]

ListsUpTo(n) == UNION {[1..k -> Records] : k \in 0..n}

\* what a function can hand back
Outputs(n) == {None, EmptyDict} \cup {ListValue(s) : s \in ListsUpTo(n)}

\* what the caller passes as expected result
ExpectedOutputs(n) == {EmptyDict} \cup {ListValue(s) : s \in ListsUpTo(n)}

\* the values argument: a mapping, or the None of a payload without
\* "values"
ValueMaps == {"mapping", "None"}

\* kinds of top-level names a code text binds: a def (or an imported
\* function, a lambda), or anything else (a module, a class, a constant)
DefKinds == {"function", "other"}

\* a code text, by what ast.parse and exec make of it: whether it parses,
\* whether executing it writes to standard output, the names it binds in
\* order, and how its execution ends (it runs to its end, raises an
\* Exception - a compile error included - or raises SystemExit)
CodeTexts(n) ==
    [parses : BOOLEAN,
     prints : BOOLEAN,
     defs : UNION {[1..k -> DefKinds] : k \in 0..n},
     ends : {"ok", "Exception", "SystemExit"}]

\* traceback.format_exc() for an exception of the given kind
FormatExc(kind) == <<"Traceback", kind>>

\* f"SyntaxError: {e}"
SyntaxErrorText == <<"SyntaxError", "e">>

NoExc == <<"None">>

\* the empty DeepDiff, equal to {}
EmptyDiff ==
    [type_changes |-> FALSE,
     iterable_item_removed |-> {},
     iterable_item_added |-> {}]

\* mutant: the comparison respects the order of the list
DeepDiffOrdered(t1, t2) ==
    IF t1.type # t2.type
    THEN [type_changes |-> TRUE,
          iterable_item_removed |-> {}, iterable_item_added |-> {}]
    ELSE IF t1.type = "list" /\ t1.items # t2.items
    THEN [type_changes |-> FALSE,
          iterable_item_removed |-> {t1.items[i] : i \in DOMAIN t1.items},
          iterable_item_added |-> {t2.items[i] : i \in DOMAIN t2.items}]
    ELSE EmptyDiff

\* DeepDiff(t1, t2, ignore_order=True): a type change when the types
\* differ; for two lists the items are hashed and the two sets of hashes
\* are compared, repetitions are not reported (report_repetition is off)
DeepDiff(t1, t2) ==
    IF t1.type # t2.type
    THEN [type_changes |-> TRUE,
          iterable_item_removed |-> {}, iterable_item_added |-> {}]
    ELSE IF t1.type = "list"
    THEN LET s1 == {t1.items[i] : i \in DOMAIN t1.items}
             s2 == {t2.items[i] : i \in DOMAIN t2.items}
         IN [type_changes |-> FALSE,
             iterable_item_removed |-> s1 \ s2,
             iterable_item_added |-> s2 \ s1]
    ELSE EmptyDiff

\* bool(diff)
Bool(diff) == diff # EmptyDiff

\* next((v for v in namespace.values() if isinstance(v, FunctionType)), None):
\* the position of the first function in the namespace, 0 for None
FirstFunction(ns) ==
    LET fs == {i \in DOMAIN ns : ns[i] = "function"}
    IN IF fs = {} THEN 0 ELSE CHOOSE i \in fs : \A j \in fs : i <= j

\* lines 97-103: the dict returned for a parse failure
SyntaxErrorReport ==
    [passed |-> FALSE,
     logs |-> <<>>,
     exception |-> SyntaxErrorText,
     diff |-> EmptyDiff,
     actual_output |-> None]

\* the locals of lines 87-91
InitHarness ==
    /\ code \in CodeTexts(MaxDefs)
    /\ values \in ValueMaps
    /\ expected_output \in ExpectedOutputs(MaxRecords)
    /\ hpc = "parse"
    /\ namespace = <<>>
    /\ stdout = <<>>
    /\ output = None
    /\ exc_info = NoExc
    /\ invoked = 0
    /\ ran = FALSE
    /\ report = <<>>
    /\ escaped = "None"
    /\ tools = {}
    /\ messages = <<>>
    /\ pc = "idle"
    /\ response = <<>>
    /\ cur = 0
    /\ result = [kind |-> "unset"]
    /\ nreq = 0
    /\ lastreq = <<>>
    /\ executed = <<>>
    /\ returned = <<>>
    /\ exc = "None"
    /\ failures = 0
    /\ installed = "default_int_handler"
    /\ original = "None"
    /\ snapshots = <<>>
    /\ passed = <<>>
    /\ now = 0
    /\ RegistryIdle
    /\ PipelineIdle

\* mutant: the parse result is not looked at
ValidateCodeSkipped ==
    /\ hpc = "parse"
    /\ hpc' = "exec"
    /\ UNCHANGED <<code, values, expected_output, namespace, stdout, output,
                   exc_info, invoked, ran, report, escaped>>
    /\ UNCHANGED outsideHarness

\* step 1, lines 94-103: ast.parse(code); a SyntaxError returns at once
ValidateCode ==
    /\ hpc = "parse"
    /\ IF code.parses
       THEN /\ hpc' = "exec"
            /\ UNCHANGED report
       ELSE /\ hpc' = "done"
            /\ report' = SyntaxErrorReport
    /\ UNCHANGED <<code, values, expected_output, namespace, stdout, output,
                   exc_info, invoked, ran, escaped>>
    /\ UNCHANGED outsideHarness

\* step 2, line 108: exec(code, namespace) under the redirected streams.
\* An Exception is caught at line 117; SystemExit is a BaseException, which
\* except Exception lets through
ExecCode ==
    /\ hpc = "exec"
    /\ ran' = TRUE
    /\ stdout' = IF code.prints THEN Append(stdout, "line") ELSE stdout
    /\ namespace' = code.defs
    /\ CASE code.ends = "ok" ->
               /\ hpc' = "call"
               /\ UNCHANGED <<exc_info, escaped>>
         [] code.ends = "Exception" ->
               /\ hpc' = "compare"
               /\ exc_info' = FormatExc("Exception")
               /\ UNCHANGED escaped
         [] code.ends = "SystemExit" ->
               /\ hpc' = "raised"
               /\ escaped' = "SystemExit"
               /\ UNCHANGED exc_info
    /\ UNCHANGED <<code, values, expected_output, output, invoked, report>>
    /\ UNCHANGED outsideHarness

\* step 2, lines 109-118: pick the first function of the namespace and call
\* it with the values as keyword arguments
CallFunction ==
    /\ hpc = "call"
    /\ LET func == FirstFunction(namespace) IN
       IF func = 0
       THEN /\ exc_info' = FormatExc("RuntimeError: No function found in code snippet")
            /\ hpc' = "compare"
            /\ UNCHANGED <<invoked, output, escaped>>
       ELSE IF values = "None"
       THEN \* func(**None) raises TypeError before the function is entered
            /\ exc_info' = FormatExc("TypeError")
            /\ hpc' = "compare"
            /\ UNCHANGED <<invoked, output, escaped>>
       ELSE /\ invoked' = func
            /\ \/ \E v \in Outputs(MaxRecords) :
                     /\ output' = v
                     /\ hpc' = "compare"
                     /\ UNCHANGED <<exc_info, escaped>>
               \/ /\ exc_info' = FormatExc("Exception")
                  /\ hpc' = "compare"
                  /\ UNCHANGED <<output, escaped>>
               \/ /\ escaped' = "SystemExit"
                  /\ hpc' = "raised"
                  /\ UNCHANGED <<output, exc_info>>
    /\ UNCHANGED <<code, values, expected_output, namespace, stdout, ran, report>>
    /\ UNCHANGED outsideHarness

\* step 3, lines 121-132: diff, verdict and the returned dict
CompareResult ==
    /\ hpc = "compare"
    /\ LET diff == IF output = None THEN EmptyDiff
                   ELSE DeepDiff(output, expected_output)
       IN report' = [passed |-> (~Bool(diff)) /\ exc_info = NoExc,
                     logs |-> stdout,
                     exception |-> exc_info,
                     diff |-> diff,
                     actual_output |-> output]
    /\ hpc' = "done"
    /\ UNCHANGED <<code, values, expected_output, namespace, stdout, output,
                   exc_info, invoked, ran, escaped>>
    /\ UNCHANGED outsideHarness

NextHarness ==
    \/ ValidateCode
    \/ ExecCode
    \/ CallFunction
    \/ CompareResult

SpecHarness == InitHarness /\ [][NextHarness]_vars

(***************************************************************************)
(* Properties of run_test_case                                             *)
(***************************************************************************)
\* how often a record occurs in a list
Occurrences(s, r) == Cardinality({i \in DOMAIN s : s[i] = r})

\* two lists hold the same records the same number of times
IsPermutation(s, t) == \A r \in Records : Occurrences(s, r) = Occurrences(t, r)

\* equality up to the ordering of list elements
EqualUpToOrder(a, b) ==
    /\ a.type = b.type
    /\ a.type = "list" => IsPermutation(a.items, b.items)

\* the function was called and returned without raising
ReturnedNormally == invoked # 0 /\ exc_info = NoExc /\ escaped = "None"

\* number of functions the executed namespace holds
FunctionCount == Cardinality({i \in DOMAIN namespace : namespace[i] = "function"})

\* C11 as stated: passed is true only if the function returned without
\* raising and its value equals the expected result up to the ordering of
\* list elements; a normal return with any other output (no output value at
\* all, missing or extra records) is never reported as passed
C11_PassedOnlyIfEqual ==
    (hpc = "done" /\ report.passed) =>
        /\ ReturnedNormally
        /\ output # None
        /\ EqualUpToOrder(output, expected_output)

\* C12: a function that returns, without raising, a list that is a
\* permutation of the expected list (both may be empty) is reported as
\* passed with an empty diff, whatever the order of the records
C12_PermutationPasses ==
    (/\ hpc = "done"
     /\ ReturnedNormally
     /\ output.type = "list"
     /\ expected_output.type = "list"
     /\ IsPermutation(output.items, expected_output.items))
        => /\ report.passed
           /\ report.diff = EmptyDiff
           /\ report.actual_output = output

\* C12 witness: the records came in the other order and the case passed
C12_Witness ==
    /\ hpc = "done"
    /\ output = ListValue(<<"r2", "r1">>)
    /\ expected_output = ListValue(<<"r1", "r2">>)
    /\ report.passed
    /\ report.diff = EmptyDiff

C14_NeverRaises ==
    /\ hpc # "raised"
    /\ escaped = "None"
    /\ (hpc = "done" /\ code.parses
            /\ (code.ends # "ok" \/ exc_info # NoExc)) =>
          /\ report.passed = FALSE
          /\ report.exception[1] = "Traceback"
          /\ report.actual_output = None

\* C15 as stated: a function is invoked only when the executed namespace
\* holds exactly one function; with none or more than one nothing is
\* invoked and the result reports the runtime error with passed false and
\* actual_output None
C15_SingleFunctionOnly ==
    /\ invoked # 0 => FunctionCount = 1
    /\ (hpc = "done" /\ ran /\ code.ends = "ok" /\ FunctionCount # 1) =>
          /\ invoked = 0
          /\ report.passed = FALSE
          /\ report.exception =
                 FormatExc("RuntimeError: No function found in code snippet")
          /\ report.actual_output = None

(***************************************************************************)
(* Part 3: the strategies package                                          *)
(***************************************************************************)
\* a class statement of a module; the base is what the name
\* FetchingStrategy is bound to in that module. method is the name under
\* which the class body defines its function, impl what that function does
ClassStmt(tn, decl, method, impl) ==
    [stmt |-> "class", type_name |-> tn, declared |-> decl,
     method |-> method, impl |-> impl]

\* from strategies import FetchingStrategy
ImportStmt ==
    [stmt |-> "import", type_name |-> "", declared |-> "",
     method |-> "", impl |-> ""]

\* the entries of the package directory as pkgutil.iter_modules lists them
\* (sorted by name): a module as save_fetching_strategy writes it (the
\* import first, the class after the imports, the function wrapped under its
\* own name), the synthesis module save, a sub-package, and the strategy
\* module of the repository, whose class statement precedes its imports
ModuleFiles ==
    << [module_name |-> "embedded_html_links", is_pkg |-> FALSE,
        body |-> <<ImportStmt,
                   ClassStmt("EmbeddedHtmlLinks", "embedded_html_links",
                             "get_committee_agendas", "scrape")>>],
       [module_name |-> "fixtures", is_pkg |-> TRUE, body |-> <<>>],
       [module_name |-> "save", is_pkg |-> FALSE, body |-> <<>>],
       [module_name |-> "yearly_meeting_pages_with_pdf_links", is_pkg |-> FALSE,
        body |-> <<ClassStmt("YearlyMeetingPagesWithPdfLinks",
                             "yearly_meeting_pages_with_pdf_links",
                             "get_committee_agendas", "scrape"),
                   ImportStmt>>] >>

RECURSIVE Listing(_, _)
\* the entries numbered in S among the first k, in directory order
Listing(S, k) ==
    IF k = 0 THEN <<>>
    ELSE IF k \in S THEN Append(Listing(S, k - 1), ModuleFiles[k])
    ELSE Listing(S, k - 1)


\* type names and name attributes of classes defined after the package is
\* loaded; "none" for a class body that sets no name
TypeNames == {"A", "B"}

DeclaredNames == {"none", "fake1"}

\* a class body defines fetch or leaves it abstract
Methods == {"fetch", "none"}

\* the parameter maps of get_agendas: the two keyword-only parameters of
\* Test.fetch, or the parameters of a scraping strategy
Params ==
    {[input_field_1 |-> "x", expected_faker_vals |-> <<"r1">>],
     [base_url |-> "u"]}

\* the strategy names get_agendas is called with
StrategyNames == {"fake1", "embedded_html_links", "A", "B", "no_such_strategy"}

\* what a scraping strategy finds on the site
SiteAgendas == <<"r1", "r2">>

\* a class object: its type name, the name its body sets, its base (a
\* position in defined, 0 for FetchingStrategy), the method its body defines
\* with what it does, the module that defined it; key is the registry key
\* __init_subclass__ stored it under
Class(tn, decl, base, method, impl, module) ==
    [type_name |-> tn, declared |-> decl, base |-> base, method |-> method,
     impl |-> impl, module |-> module, key |-> ""]

\* class Test of the package module, lines 48-54
TestClass == Class("Test", "fake1", 0, "fetch", "echo", "strategies")

RECURSIVE NameAttr(_, _)
\* getattr(cls, "name", ...): the attribute of the class with position id,
\* looked up along its bases; "none" when no class on the way sets it
\* (FetchingStrategy, position 0, sets none)
NameAttr(defs, id) ==
    IF id = 0 THEN "none"
    ELSE IF defs[id].declared # "none" THEN defs[id].declared
    ELSE NameAttr(defs, defs[id].base)

\* line 26: key = getattr(cls, "name", cls.__name__) for a class about to
\* be added to defs
KeyOf(defs, cls) ==
    IF cls.declared # "none" THEN cls.declared
    ELSE LET inherited == NameAttr(defs, cls.base)
         IN IF inherited # "none" THEN inherited ELSE cls.type_name

\* mutant: an existing entry is kept (setdefault)
RegisterFirstWins(reg, key, id) ==
    [k \in DOMAIN reg \cup {key} |-> IF k \in DOMAIN reg THEN reg[k] ELSE id]

\* line 27: FetchingStrategy.registry[key] = cls
Register(reg, key, id) ==
    [k \in DOMAIN reg \cup {key} |-> IF k = key THEN id ELSE reg[k]]

\* __init_subclass__, lines 24-27, for class cls: the classes and the
\* registry after it
InitSubclass(defs, reg, cls) ==
    LET key == KeyOf(defs, cls)
        id == Len(defs) + 1
    IN [defined |-> Append(defs, [cls EXCEPT !.key = key]),
        registry |-> Register(reg, key, id),
        error |-> "None"]


RECURSIVE ExecBody(_, _, _, _, _)
\* the body of a module executed statement by statement; bound tells
\* whether the name FetchingStrategy is bound in the module. A class
\* statement whose base name is unbound raises NameError and ends the import
ExecBody(body, module, bound, defs, reg) ==
    IF body = <<>> THEN [defined |-> defs, registry |-> reg, error |-> "None"]
    ELSE LET st == Head(body) IN
         IF st.stmt = "import"
         THEN ExecBody(Tail(body), module, TRUE, defs, reg)
         ELSE IF ~bound
         THEN [defined |-> defs, registry |-> reg, error |-> "NameError"]
         ELSE LET after == InitSubclass(defs, reg,
                               Class(st.type_name, st.declared, 0, st.method,
                                     st.impl, module))
              IN ExecBody(Tail(body), module, bound, after.defined, after.registry)

RECURSIVE FetchOwner(_, _)
\* the class whose fetch an instance of class id runs: the nearest class
\* on the way to FetchingStrategy that defines fetch, 0 when fetch is still
\* the abstract method
FetchOwner(defs, id) ==
    IF id = 0 THEN 0
    ELSE IF defs[id].method = "fetch" THEN id
    ELSE FetchOwner(defs, defs[id].base)

\* what a strategy function does with a parameter map: Test.fetch hands
\* back expected_faker_vals, a scraping function the agendas of the site;
\* parameters that do not fit the signature raise TypeError
Apply(impl, params) ==
    IF impl = "echo"
    THEN IF DOMAIN params = {"input_field_1", "expected_faker_vals"}
         THEN [ok |-> TRUE, value |-> params.expected_faker_vals]
         ELSE [ok |-> FALSE, value |-> <<>>]
    ELSE IF DOMAIN params = {"base_url"}
         THEN [ok |-> TRUE, value |-> SiteAgendas]
         ELSE [ok |-> FALSE, value |-> <<>>]

\* mutant: a missing name falls back to the first registered class
LookupFallback(reg, name) == IF name \in DOMAIN reg THEN reg[name] ELSE 1

\* FetchingStrategy.registry[for_strategy]: the class, 0 for KeyError
Lookup(reg, name) == IF name \in DOMAIN reg THEN reg[name] ELSE 0

\* no get_agendas call was made
NoCall ==
    [outcome |-> "none", name |-> "", params |-> <<>>, cls |-> 0,
     lookups |-> 0, instances |-> 0, fetches |-> 0, value |-> <<>>]

\* line 45: registry[for_strategy]().fetch(**input_params), as the record
\* of what the call did
Dispatch(defs, reg, name, params) ==
    LET id == Lookup(reg, name)
        owner == FetchOwner(defs, id)
        base == [NoCall EXCEPT !.name = name, !.params = params,
                               !.cls = id, !.lookups = 1]
    IN IF id = 0
       THEN [base EXCEPT !.outcome = "KeyError"]
       ELSE IF owner = 0
       THEN [base EXCEPT !.outcome = "TypeError: abstract class"]
       ELSE LET r == Apply(defs[owner].impl, params)
            IN IF r.ok
               THEN [base EXCEPT !.outcome = "returned", !.instances = 1,
                                 !.fetches = 1, !.value = r.value]
               ELSE [base EXCEPT !.outcome = "TypeError: arguments",
                                 !.instances = 1, !.fetches = 1]

\* the interpreter is about to import the package
InitRegistry ==
    /\ \E S \in SUBSET (DOMAIN ModuleFiles) :
          package_dir = Listing(S, Len(ModuleFiles))
    /\ rpc = "start"
    /\ next_module = 0
    /\ imported = [i \in DOMAIN package_dir |-> 0]
    /\ defined = <<>>
    /\ registry = <<>>
    /\ call = NoCall
    /\ tools = {}
    /\ messages = <<>>
    /\ pc = "idle"
    /\ response = <<>>
    /\ cur = 0
    /\ result = [kind |-> "unset"]
    /\ nreq = 0
    /\ lastreq = <<>>
    /\ executed = <<>>
    /\ returned = <<>>
    /\ exc = "None"
    /\ failures = 0
    /\ installed = "default_int_handler"
    /\ original = "None"
    /\ snapshots = <<>>
    /\ passed = <<>>
    /\ now = 0
    /\ HarnessIdle
    /\ PipelineIdle

\* lines 1-57 up to the loop: the package module defines FetchingStrategy
\* and Test, then calls _import_all_strategies
ImportPackage ==
    /\ rpc = "start"
    /\ LET after == InitSubclass(<<>>, <<>>, TestClass)
       IN /\ defined' = after.defined
          /\ registry' = after.registry
    /\ next_module' = 1
    /\ rpc' = "importing"
    /\ UNCHANGED <<package_dir, imported, call>>
    /\ UNCHANGED outsideRegistry

\* lines 33-35, one turn of the loop: a package is skipped, a module is
\* imported; an error raised by its body leaves the loop and the package
\* import
ImportNext ==
    /\ rpc = "importing"
    /\ next_module <= Len(package_dir)
    /\ LET entry == package_dir[next_module] IN
       IF entry.is_pkg \/ entry.module_name = "__init__"
       THEN /\ next_module' = next_module + 1
            /\ UNCHANGED <<rpc, imported, defined, registry>>
       ELSE LET after == ExecBody(entry.body, entry.module_name, FALSE,
                                  defined, registry)
            IN /\ imported' = [imported EXCEPT ![next_module] = @ + 1]
               /\ defined' = after.defined
               /\ registry' = after.registry
               /\ IF after.error = "None"
                  THEN /\ next_module' = next_module + 1
                       /\ UNCHANGED rpc
                  ELSE /\ rpc' = "failed"
                       /\ UNCHANGED next_module
    /\ UNCHANGED <<package_dir, call>>
    /\ UNCHANGED outsideRegistry

\* the loop is exhausted: line 57 returns and the package is initialized
FinishImport ==
    /\ rpc = "importing"
    /\ next_module > Len(package_dir)
    /\ rpc' = "ready"
    /\ UNCHANGED <<package_dir, next_module, imported, defined, registry, call>>
    /\ UNCHANGED outsideRegistry

\* a class statement with a strategy base executed after the package is
\* loaded: __init_subclass__ runs for it. The base is FetchingStrategy or
\* the class defined last; the record of the last call is dropped
DefineClass ==
    /\ rpc = "ready"
    /\ Cardinality({i \in DOMAIN defined : defined[i].module = "__main__"})
           < MaxClasses
    /\ \E tn \in TypeNames, decl \in DeclaredNames, base \in {0, Len(defined)},
          method \in Methods :
          LET after == InitSubclass(defined, registry,
                           Class(tn, decl, base, method, "scrape", "__main__"))
          IN /\ defined' = after.defined
             /\ registry' = after.registry
    /\ call' = NoCall
    /\ UNCHANGED <<package_dir, rpc, next_module, imported>>
    /\ UNCHANGED outsideRegistry

\* get_agendas, lines 41-45
GetAgendas ==
    /\ rpc = "ready"
    /\ \E name \in StrategyNames, params \in Params :
          call' = Dispatch(defined, registry, name, params)
    /\ UNCHANGED <<package_dir, rpc, next_module, imported, defined, registry>>
    /\ UNCHANGED outsideRegistry

NextRegistry ==
    \/ ImportPackage
    \/ ImportNext
    \/ FinishImport
    \/ DefineClass
    \/ GetAgendas

SpecRegistry == InitRegistry /\ [][NextRegistry]_vars

(***************************************************************************)
(* Properties of the strategies package                                    *)
(***************************************************************************)
\* the positions of the classes that were registered under a key
RegisteredUnder(k) == {i \in DOMAIN defined : defined[i].key = k}

\* the key the class statement itself names: the name its body sets, its
\* type name when the body sets none
OwnKey(cls) == IF cls.declared # "none" THEN cls.declared ELSE cls.type_name

\* the function a strategy class was written around: the one its body
\* defines, or else that of its base
RECURSIVE StrategyFunction(_)
StrategyFunction(id) ==
    IF id = 0 THEN "none"
    ELSE IF defined[id].method # "none" THEN defined[id].impl
    ELSE StrategyFunction(defined[id].base)

\* C16: after any sequence of class definitions the registry maps each
\* name that was registered to exactly one class, the one defined last
\* under that name; every definition is registered (none fails), so an
\* earlier class of the same name is never looked up
C16_LastDefinitionWins ==
    /\ DOMAIN registry = {defined[i].key : i \in DOMAIN defined}
    /\ \A k \in DOMAIN registry :
          /\ registry[k] \in RegisteredUnder(k)
          /\ \A i \in RegisteredUnder(k) : i <= registry[k]
    /\ (call.outcome # "none" /\ call.name \in DOMAIN registry) =>
          \A i \in RegisteredUnder(call.name) : i <= call.cls

\* C16 witness: a name was registered twice and a lookup under it found
\* the later class
C16_Witness ==
    /\ \E i \in DOMAIN defined : \E j \in DOMAIN defined :
          /\ i < j
          /\ defined[i].key = defined[j].key
          /\ call.name = defined[j].key
          /\ call.cls = j
    /\ call.outcome = "returned"

\* C17 as stated: every class is registered under the name its body
\* declares, under its type name when it declares none, and its definition
\* changed no other entry: each entry holds a class that names that key
C17_RegisteredUnderOwnName ==
    /\ \A i \in DOMAIN defined : defined[i].key = OwnKey(defined[i])
    /\ \A k \in DOMAIN registry : OwnKey(defined[registry[k]]) = k

\* C18 as stated: for a registered name get_agendas makes a fresh instance
\* of the class registered under it, calls its fetch with the parameters as
\* keyword arguments and returns exactly what fetch returns (a fetch that
\* rejects the parameters raises); for a stored fixture, whose expected
\* output is what the strategy's function produces for its parameters, the
\* value returned equals the expected output. Nothing is said of a class
\* that was written around no function at all
C18_DispatchReturnsFetchValue ==
    (/\ call.outcome # "none"
     /\ call.name \in DOMAIN registry
     /\ StrategyFunction(registry[call.name]) # "none") =>
        LET expected == Apply(StrategyFunction(registry[call.name]), call.params)
        IN /\ call.cls = registry[call.name]
           /\ call.instances = 1
           /\ call.fetches = 1
           /\ IF expected.ok
              THEN call.outcome = "returned" /\ call.value = expected.value
              ELSE call.outcome = "TypeError: arguments"

\* C19: get_agendas with a name that is not in the registry fails with a
\* lookup error: one lookup, no instance, no fetch, and the registry and the
\* classes are as before the call
C19_UnknownNameFails ==
    /\ []((call.outcome # "none" /\ call.name \notin DOMAIN registry) =>
             /\ call.outcome = "KeyError"
             /\ call.cls = 0
             /\ call.lookups = 1
             /\ call.instances = 0
             /\ call.fetches = 0)
    /\ [][(call' # call /\ call'.outcome # "none") =>
             UNCHANGED <<registry, defined, imported, rpc>>]_vars

\* C19 witness: a call with an unregistered name has failed while other
\* names are registered
C19_Witness ==
    /\ call.outcome = "KeyError"
    /\ call.name \notin DOMAIN registry
    /\ Cardinality(DOMAIN registry) >= 2

\* C20 as stated: the initialization of the package completes with every
\* sibling module that is not a package imported exactly once, and every
\* strategy class of those modules is then found in the registry under its
\* name
C20_AllSiblingsDiscovered ==
    rpc \in {"ready", "failed"} =>
        /\ rpc = "ready"
        /\ \A i \in DOMAIN package_dir :
              ~package_dir[i].is_pkg =>
                  /\ imported[i] = 1
                  /\ \A n \in DOMAIN package_dir[i].body :
                        LET st == package_dir[i].body[n] IN
                        st.stmt = "class" =>
                            /\ st.declared \in DOMAIN registry
                            /\ defined[registry[st.declared]].type_name = st.type_name
                            /\ defined[registry[st.declared]].module
                                   = package_dir[i].module_name


(***************************************************************************)
(* Part 4: the synthesis pipeline, src/strategies/save.py                  *)
(* (save_fetching_strategy with its two syntax tree transformers). The     *)
(* function has no suspension point; its steps are taken one after the     *)
(* other and nothing else runs between them.                               *)
(***************************************************************************)
\* most top-level statements of a proposed source snippet
MaxStmts == 2

\* line 203: the function the pipeline wraps
TargetFunc == "get_committee_agendas"

\* fetch_result["strategy_name"], and the class name line 204 derives
StrategyName == "embedded_html_links"

ClassName == "EmbeddedHtmlLinks"

\* fetch_result["values"]
StrategyValues == [base_url |-> "u"]

\* from <from_module> import <names>, or import * when star
FromImport(from_module, names, star) ==
    [stmt |-> "ImportFrom", from_module |-> from_module, names |-> names,
     star |-> star]

\* def <name>(...) with what the function does
FunctionDef(name, impl) == [stmt |-> "FunctionDef", name |-> name, impl |-> impl]

\* class <name>(FetchingStrategy) whose body sets name = attr and defines
\* one function under the name method
ClassDef(name, attr, method, impl) ==
    [stmt |-> "ClassDef", name |-> name, attr |-> attr, method |-> method,
     impl |-> impl]

\* the statements of proposed snippets
SnippetStmts ==
    {FromImport("strategies", {"FetchingStrategy"}, FALSE),
     FromImport("strategies", {}, TRUE),
     FromImport("bs4", {"BeautifulSoup"}, FALSE),
     FunctionDef(TargetFunc, "scrape"),
     FunctionDef("helper", "scrape")}

\* the statement lists of at most n statements
Bodies(n) == UNION {[1..k -> SnippetStmts] : k \in 0..n}

\* proposed sources: text libcst cannot parse, or a statement list
Sources(n) ==
    {[parses |-> FALSE, body |-> <<>>]}
    \cup {[parses |-> TRUE, body |-> b] : b \in Bodies(n)}

\* no file of the strategy name
NoFile == [exists |-> FALSE, body |-> <<>>]

\* lines 124-136 for one statement: the import names FetchingStrategy of a
\* module called strategies
NamesBase(st) ==
    /\ st.stmt = "ImportFrom"
    /\ st.from_module = "strategies"
    /\ ~st.star
    /\ "FetchingStrategy" \in st.names

\* line 132 iterates the names of every import from strategies; the names
\* of import * are one ImportStar node, which cannot be iterated
StarOfBase(st) ==
    /\ st.stmt = "ImportFrom"
    /\ st.from_module = "strategies"
    /\ st.star

\* mutant: the import is inserted whether or not it is there
AddFromImportAlways(body) ==
    [error |-> "None",
     body |-> <<FromImport("strategies", {"FetchingStrategy"}, FALSE)>> \o body]

\* AddFromImportTransformer("strategies", "FetchingStrategy"), lines
\* 117-157, applied to a statement list
AddFromImportTransformer(body) ==
    IF \E k \in DOMAIN body : StarOfBase(body[k])
    THEN [error |-> "TypeError", body |-> body]
    ELSE IF \E k \in DOMAIN body : NamesBase(body[k])
    THEN [error |-> "None", body |-> body]
    ELSE [error |-> "None",
          body |-> <<FromImport("strategies", {"FetchingStrategy"}, FALSE)>>
                   \o body]

\* the statement is a function definition of the wrapped name
IsTarget(st) == st.stmt = "FunctionDef" /\ st.name = TargetFunc

RECURSIVE Without(_)
\* line 59: every definition of the wrapped name is removed
Without(body) ==
    IF body = <<>> THEN <<>>
    ELSE IF IsTarget(Head(body)) THEN Without(Tail(body))
    ELSE <<Head(body)>> \o Without(Tail(body))

\* lines 104-113: cls goes before the first statement that is not a
\* simple statement line, at the end when there is none
InsertClass(body, cls) ==
    LET compound == {k \in DOMAIN body : body[k].stmt \notin {"ImportFrom"}}
    IN IF compound = {} THEN Append(body, cls)
       ELSE LET k == CHOOSE m \in compound : \A n \in compound : m <= n
            IN SubSeq(body, 1, k - 1) \o <<cls>> \o SubSeq(body, k, Len(body))

\* WrapFunctionInClassWithAttribute, lines 54-115: the last definition of
\* the wrapped name becomes the only function of the new class, under the
\* name it has; without such a definition the tree is returned as it is
WrapFunctionInClassWithAttribute(body) ==
    LET found == {k \in DOMAIN body : IsTarget(body[k])}
    IN IF found = {} THEN body
       ELSE LET last == CHOOSE m \in found : \A n \in found : n <= m
            IN InsertClass(Without(body),
                           ClassDef(ClassName, StrategyName,
                                    body[last].name, body[last].impl))

RECURSIVE Executable(_)
\* a written statement list as the statements the import of the package
\* executes (part 3): the import of the base, the class statements
Executable(body) ==
    IF body = <<>> THEN <<>>
    ELSE LET st == Head(body) IN
         IF st.stmt = "ImportFrom" /\ st.from_module = "strategies"
         THEN <<ImportStmt>> \o Executable(Tail(body))
         ELSE IF st.stmt = "ClassDef"
         THEN <<ClassStmt(st.name, st.attr, st.method, st.impl)>>
              \o Executable(Tail(body))
         ELSE Executable(Tail(body))

\* before the first call: no strategy file
InitSave ==
    /\ strategy_file = NoFile
    /\ proposal = [parses |-> TRUE, body |-> <<>>]
    /\ spc = "idle"
    /\ tree = <<>>
    /\ save_error = "None"
    /\ dispatched = NoCall
    /\ EngineIdle
    /\ HarnessIdle
    /\ RegistryIdle
    /\ FixtureIdle
    /\ ScraperIdle
    /\ WorkflowIdle
    /\ TasksIdle

\* mutant: the file is opened for writing before the source is parsed
ParseModuleAfterOpen ==
    /\ spc \in {"idle", "written", "raised", "dispatched"}
    /\ \E src \in Sources(MaxStmts) :
          /\ proposal' = src
          /\ strategy_file' = [exists |-> TRUE, body |-> <<>>]
          /\ IF src.parses
             THEN /\ tree' = src.body
                  /\ spc' = "parsed"
                  /\ save_error' = "None"
             ELSE /\ tree' = <<>>
                  /\ spc' = "raised"
                  /\ save_error' = "ParserSyntaxError"
    /\ dispatched' = NoCall
    /\ UNCHANGED outsideSave

\* a call of save_fetching_strategy, lines 161-172: parse_module raises on
\* a source it cannot parse
ParseModule ==
    /\ spc \in {"idle", "written", "raised", "dispatched"}
    /\ \E src \in Sources(MaxStmts) :
          /\ proposal' = src
          /\ IF src.parses
             THEN /\ tree' = src.body
                  /\ spc' = "parsed"
                  /\ save_error' = "None"
             ELSE /\ tree' = <<>>
                  /\ spc' = "raised"
                  /\ save_error' = "ParserSyntaxError"
    /\ dispatched' = NoCall
    /\ UNCHANGED strategy_file
    /\ UNCHANGED outsideSave

\* lines 200-201
AddImport ==
    /\ spc = "parsed"
    /\ LET r == AddFromImportTransformer(tree)
       IN IF r.error = "None"
          THEN /\ tree' = r.body
               /\ spc' = "imported"
               /\ UNCHANGED save_error
          ELSE /\ spc' = "raised"
               /\ save_error' = r.error
               /\ UNCHANGED tree
    /\ UNCHANGED <<strategy_file, proposal, dispatched>>
    /\ UNCHANGED outsideSave

\* lines 202-210
WrapFunction ==
    /\ spc = "imported"
    /\ tree' = WrapFunctionInClassWithAttribute(tree)
    /\ spc' = "wrapped"
    /\ UNCHANGED <<strategy_file, proposal, save_error, dispatched>>
    /\ UNCHANGED outsideSave

\* lines 213-214
WriteFile ==
    /\ spc = "wrapped"
    /\ strategy_file' = [exists |-> TRUE, body |-> tree]
    /\ spc' = "written"
    /\ UNCHANGED <<proposal, tree, save_error, dispatched>>
    /\ UNCHANGED outsideSave

\* a later interpreter imports the written module and calls
\* get_agendas(strategy_name, values), src/strategies/__init__.py lines 24-45
DispatchWritten ==
    /\ spc = "written"
    /\ LET loaded == ExecBody(Executable(strategy_file.body), StrategyName,
                              FALSE, <<>>, <<>>)
       IN dispatched' = Dispatch(loaded.defined, loaded.registry,
                                 StrategyName, StrategyValues)
    /\ spc' = "dispatched"
    /\ UNCHANGED <<strategy_file, proposal, tree, save_error>>
    /\ UNCHANGED outsideSave

NextSave ==
    \/ ParseModule
    \/ AddImport
    \/ WrapFunction
    \/ WriteFile
    \/ DispatchWritten

SpecSave == InitSave /\ [][NextSave]_vars


(***************************************************************************)
(* Claims about the synthesis pipeline                                     *)
(***************************************************************************)
\* the function definitions of a statement list, in order
FunctionDefs(body) == SelectSeq(body, LAMBDA st : st.stmt = "FunctionDef")

\* a snippet with exactly one function, which has the name the pipeline
\* asks for
SingleFunctionSnippet(body) ==
    /\ Len(FunctionDefs(body)) = 1
    /\ IsTarget(FunctionDefs(body)[1])

\* what that function returns for the values of the specification: the
\* output run_test_case compared with the expected output
ValidatedOutput(body) == Apply(FunctionDefs(body)[1].impl, StrategyValues).value

\* the number of statements that import FetchingStrategy from strategies
BaseImports(body) == Cardinality({k \in DOMAIN body : NamesBase(body[k])})

\* C21 as stated: for a source with a single function (named as the
\* pipeline expects) that was validated for the specification's values, the
\* class save_fetching_strategy wrote can be dispatched through the
\* registry under the strategy name, and its fetch called with the same
\* values returns the validated output
C21_SavedClassReproducesValidatedOutput ==
    (spc = "dispatched" /\ SingleFunctionSnippet(proposal.body))
        => /\ dispatched.outcome = "returned"
           /\ dispatched.value = ValidatedOutput(proposal.body)

\* C22: a call of save_fetching_strategy whose source cannot be parsed
\* ends with the parser's error reaching the caller and leaves the strategy
\* file as it was: none is created, and an existing one keeps its content
C22_UnparseableWritesNothing ==
    [][(~proposal'.parses)
          => /\ spc' = "raised"
             /\ save_error' = "ParserSyntaxError"
             /\ strategy_file' = strategy_file]_vars

\* C22 witness: a call with an unparseable source has failed while a file
\* written by an earlier call, holding a class, is in place
C22_Witness ==
    /\ spc = "raised"
    /\ ~proposal.parses
    /\ strategy_file.exists
    /\ \E k \in DOMAIN strategy_file.body :
          strategy_file.body[k].stmt = "ClassDef"

\* C23: after AddFromImportTransformer has run, running it again changes
\* nothing; a source that already imported FetchingStrategy from strategies
\* comes out as it went in, and the transformer inserts the import only
\* where there was none, so it never makes a second one
C23_ImportInsertionIdempotent ==
    spc = "imported"
        => /\ AddFromImportTransformer(tree) = [error |-> "None", body |-> tree]
           /\ BaseImports(proposal.body) >= 1 => tree = proposal.body
           /\ BaseImports(proposal.body) = 0 => BaseImports(tree) = 1

\* C23 witness: the transformer has run on a source that imports
\* FetchingStrategy from strategies after another statement
C23_Witness ==
    /\ spc = "imported"
    /\ Len(proposal.body) = 2
    /\ NamesBase(proposal.body[2])
    /\ ~NamesBase(proposal.body[1])

\* the source of the call parses and holds no function of the wrapped name
NoTargetSource ==
    /\ proposal.parses
    /\ \A k \in DOMAIN proposal.body : ~IsTarget(proposal.body[k])

\* the statement list is the original code, after the import of the base
\* where the original code has none
OriginalWithImport(body) ==
    IF BaseImports(proposal.body) >= 1 THEN body = proposal.body
    ELSE /\ Len(body) = Len(proposal.body) + 1
         /\ NamesBase(body[1])
         /\ Tail(body) = proposal.body

\* C38 as stated: a call whose source parses and holds no function named
\* get_committee_agendas raises nothing and ends with a strategy file
\* written that holds the import of the base type and the original code
\* and no class; loading that file registers nothing under the strategy
\* name
C38_NoTargetStillWrites ==
    (NoTargetSource /\ spc \in {"raised", "written", "dispatched"})
        => /\ spc # "raised"
           /\ save_error = "None"
           /\ strategy_file.exists
           /\ OriginalWithImport(strategy_file.body)
           /\ \A k \in DOMAIN strategy_file.body :
                 strategy_file.body[k].stmt # "ClassDef"
           /\ spc = "dispatched" => dispatched.outcome = "KeyError"


(***************************************************************************)
(* The method WrapFunctionInClassWithAttribute emits, with the parameters  *)
(* and the statements of the function it found                             *)
(***************************************************************************)
\* most parameter names of a proposed function
MaxParams == 2

\* the parameter names a proposed function declares, at most n of them
ParamNames(n) == {p \in {"url", "year", "month"} :
                    \/ p = "url" /\ n >= 1
                    \/ p = "year" /\ n >= 2
                    \/ p = "month" /\ n >= 3}

\* a parameter with or without a default value
Param(name, has_default) == [name |-> name, has_default |-> has_default]

\* the parameter kinds of a def: positional-only (before /), positional or
\* keyword, keyword-only (after * or *args)
ParamKinds == {"posonly_params", "params", "kwonly_params"}

\* libcst.Parameters: the lists of a signature, *args and **kwargs
Parameters(posonly_params, params, star_arg, kwonly_params, star_kwarg) ==
    [posonly_params |-> posonly_params, params |-> params,
     star_arg |-> star_arg, kwonly_params |-> kwonly_params,
     star_kwarg |-> star_kwarg]

\* the orders in which a set of names can be written
Orders(names) ==
    {o \in [1..Cardinality(names) -> names] :
        \A i, j \in DOMAIN o : o[i] = o[j] => i = j}

\* the parameters of kind k, in the written order
OfKind(order, kind_of, default_of, k) ==
    LET picked == SelectSeq(order, LAMBDA p : kind_of[p] = k)
    IN [i \in DOMAIN picked |-> Param(picked[i], default_of[picked[i]])]

\* Python refuses a parameter without default after one with a default
\* among the positional ones
DefaultsInOrder(ps) ==
    \A i, j \in DOMAIN ps : (i < j /\ ps[i].has_default) => ps[j].has_default

\* the signatures parse_module accepts over at most n parameter names
Signatures(n) ==
    UNION {
        {Parameters(OfKind(o, kind_of, default_of, "posonly_params"),
                    OfKind(o, kind_of, default_of, "params"),
                    star_arg,
                    OfKind(o, kind_of, default_of, "kwonly_params"),
                    star_kwarg) :
            o \in Orders(names),
            kind_of \in [names -> ParamKinds],
            default_of \in [names -> BOOLEAN],
            star_arg \in BOOLEAN,
            star_kwarg \in BOOLEAN} :
        names \in SUBSET ParamNames(n)}

ValidSignatures(n) ==
    {sig \in Signatures(n) : DefaultsInOrder(sig.posonly_params \o sig.params)}

\* the statement lists of the body of a proposed function: with or without
\* a docstring of its own
FunctionBodies == {<<"return">>, <<"docstring", "return">>,
                   <<"assign", "return">>}

\* def get_committee_agendas(<sig>): <stmts>
FoundFunc(sig, stmts) ==
    [stmt |-> "FunctionDef", name |-> TargetFunc, params |-> sig,
     stmts |-> stmts]

\* line 68: the statement holding the generated docstring
MethodDocstring == "method_doc"

\* lines 73-79: method_with_self. Parameters(params=new_params) is a new
\* signature made of self and the function's params list alone; its other
\* fields have their defaults (no *args, no keyword-only or
\* positional-only parameters, no **kwargs)
MethodWithSelf(found_func) ==
    [found_func EXCEPT
        !.params = Parameters(<<>>,
                              <<Param("self", FALSE)>> \o found_func.params.params,
                              FALSE, <<>>, FALSE),
        !.stmts = <<MethodDocstring>> \o found_func.stmts]

\* lines 95-99: the class that holds the method
NewClass(method) ==
    [stmt |-> "ClassDef", name |-> ClassName, attr |-> StrategyName,
     method |-> method]

\* before the call
InitWrap ==
    /\ strategy_file = NoFile
    /\ proposal = [parses |-> TRUE, body |-> <<>>]
    /\ spc = "idle"
    /\ tree = <<>>
    /\ save_error = "None"
    /\ dispatched = NoCall
    /\ EngineIdle
    /\ HarnessIdle
    /\ RegistryIdle
    /\ FixtureIdle
    /\ ScraperIdle
    /\ WorkflowIdle
    /\ TasksIdle

\* lines 171-172 and 54-60 for a source that is one function of the
\* wrapped name: the function is taken out of the module and kept
FindFunction ==
    /\ spc = "idle"
    /\ \E sig \in ValidSignatures(MaxParams), stmts \in FunctionBodies :
          /\ proposal' = [parses |-> TRUE, body |-> <<FoundFunc(sig, stmts)>>]
          /\ tree' = <<>>
    /\ spc' = "found"
    /\ UNCHANGED <<strategy_file, save_error, dispatched>>
    /\ UNCHANGED outsideSave

\* leave_Module, lines 62-115: the class with the method is the module
LeaveModule ==
    /\ spc = "found"
    /\ tree' = <<NewClass(MethodWithSelf(proposal.body[1]))>>
    /\ spc' = "wrapped"
    /\ UNCHANGED <<strategy_file, proposal, save_error, dispatched>>
    /\ UNCHANGED outsideSave

NextWrap ==
    \/ FindFunction
    \/ LeaveModule
    \/ WriteFile

SpecWrap == InitWrap /\ [][NextWrap]_vars

\* a signature as it is written: every parameter with its kind, in order
Written(sig) ==
    [i \in DOMAIN sig.posonly_params |->
        <<"posonly_params", sig.posonly_params[i]>>]
    \o [i \in DOMAIN sig.params |-> <<"params", sig.params[i]>>]
    \o (IF sig.star_arg THEN <<<<"star_arg">>>> ELSE <<>>)
    \o [i \in DOMAIN sig.kwonly_params |->
            <<"kwonly_params", sig.kwonly_params[i]>>]
    \o (IF sig.star_kwarg THEN <<<<"star_kwarg">>>> ELSE <<>>)

\* the written signature without the self it starts with
AfterSelf(sig) ==
    LET w == Written(sig) IN
    IF w # <<>> /\ w[1][2] = Param("self", FALSE) THEN Tail(w) ELSE <<"no self">>

\* C35 as stated: the emitted method takes self followed by exactly the
\* parameters of the proposed function, with their names, order, kinds and
\* defaults, and its body is the generated docstring followed by the
\* function's statements unchanged
C35_MethodKeepsParameters ==
    spc \in {"wrapped", "written"} =>
        LET method == tree[1].method
            func == proposal.body[1]
        IN /\ AfterSelf(method.params) = Written(func.params)
           /\ method.stmts = <<MethodDocstring>> \o func.stmts
           /\ method.name = func.name


(***************************************************************************)
(* Part 5: the fixture capabilities, src/tools/store_expected_agenda.py    *)
(* (StoreExpectedAgendas.execute) and src/tools/iterate_strategy.py        *)
(* (TestProposedStrategyTool.execute, which ends in run_test_case, part 2) *)
(***************************************************************************)
\* committee names, as character sequences: two that differ in case and in
\* the blank, and a third
CommitteeNames == {<<"P", " ", "B">>, <<"p", "_", "b">>, <<"Z">>}

\* str.lower() for one character
Lower(c) ==
    CASE c = "P" -> "p"
      [] c = "B" -> "b"
      [] c = "Z" -> "z"
      [] OTHER -> c

\* name.replace(' ', '_').lower()
FileStem(name) ==
    [i \in DOMAIN name |-> IF name[i] = " " THEN "_" ELSE Lower(name[i])]

\* store_expected_agenda.py line 50
StoreDir == "strategies/expected"

\* iterate_strategy.py line 68
ReadDir == "strategies/fixtures/expected"

\* the meetings argument of a storage call
Meetings == {ListValue(<<>>), ListValue(<<"r2", "r1">>)}

\* json.dump of a list of records or of None: the tokens of the text
JsonDump(v) ==
    IF v = None THEN <<"null">>
    ELSE <<"[">> \o v.items \o <<"]">>

\* json.load of such a text
JsonLoad(text) ==
    IF text = <<"null">> THEN None
    ELSE ListValue(SubSeq(text, 2, Len(text) - 1))

\* not v, for the values a fixture file holds
Falsy(v) == v = None \/ (v.type = "list" /\ v.items = <<>>)

\* a directory tree with the file written
WriteTo(fs, path, text) ==
    [q \in DOMAIN fs \cup {path} |-> IF q = path THEN text ELSE fs[q]]

\* the fixture directories before the first call: empty, or one fixture put
\* where the validation capability reads
InitialFiles ==
    {<<>>}
    \cup {WriteTo(<<>>, <<ReadDir, FileStem(n)>>, JsonDump(m)) :
             n \in CommitteeNames, m \in Meetings}

NoFixtureCall ==
    [tool |-> "none", name |-> <<>>, outcome |-> "none", expected |-> None]

\* run_test_case is not running: its locals do not exist
HarnessLeft ==
    /\ code' = <<>>
    /\ values' = "None"
    /\ expected_output' = <<>>
    /\ hpc' = "idle"
    /\ namespace' = <<>>
    /\ stdout' = <<>>
    /\ output' = <<>>
    /\ exc_info' = <<"None">>
    /\ invoked' = 0
    /\ ran' = FALSE
    /\ report' = <<>>
    /\ escaped' = "None"

\* no capability call is in progress; a behaviour is followed up to the
\* end of its first run of run_test_case
CallsOver == hpc = "idle"

InitFixture ==
    /\ files \in InitialFiles
    /\ store_dir \in BOOLEAN
    /\ fixture_call = NoFixtureCall
    /\ EngineIdle
    /\ HarnessIdle
    /\ RegistryIdle
    /\ SaveIdle
    /\ ScraperIdle
    /\ WorkflowIdle
    /\ TasksIdle

\* StoreExpectedAgendas.execute, lines 45-55: open(file_path, "w") fails
\* when the directory is missing
StoreExecute ==
    /\ CallsOver
    /\ \E n \in CommitteeNames, m \in Meetings :
          IF store_dir
          THEN /\ files' = WriteTo(files, <<StoreDir, FileStem(n)>>, JsonDump(m))
               /\ fixture_call' = [tool |-> "store_expected_agendas", name |-> n,
                                   outcome |-> "returned", expected |-> None]
          ELSE /\ files' = files
               /\ fixture_call' = [tool |-> "store_expected_agendas", name |-> n,
                                   outcome |-> "FileNotFoundError",
                                   expected |-> None]
    /\ HarnessLeft
    /\ UNCHANGED store_dir
    /\ UNCHANGED outsideFixture

\* TestProposedStrategyTool.execute, lines 63-79. Without the file the
\* local expected_output is never bound and line 76 raises
\* UnboundLocalError; a falsy fixture raises the Exception of line 77;
\* otherwise run_test_case is entered
TestExecute ==
    /\ CallsOver
    /\ \E n \in CommitteeNames :
          LET path == <<ReadDir, FileStem(n)>>
              made == [tool |-> "test_proposed_strategy", name |-> n,
                       outcome |-> "none", expected |-> None]
          IN IF path \notin DOMAIN files
             THEN /\ fixture_call' = [made EXCEPT !.outcome = "UnboundLocalError"]
                  /\ HarnessLeft
             ELSE IF Falsy(JsonLoad(files[path]))
             THEN /\ fixture_call' = [made EXCEPT
                                        !.outcome = "Exception: No expected output found",
                                        !.expected = JsonLoad(files[path])]
                  /\ HarnessLeft
             ELSE /\ fixture_call' = [made EXCEPT
                                        !.outcome = "run_test_case",
                                        !.expected = JsonLoad(files[path])]
                  /\ \E c \in CodeTexts(MaxDefs), v \in ValueMaps :
                        /\ code' = c
                        /\ values' = v
                  /\ expected_output' = JsonLoad(files[path])
                  /\ hpc' = "parse"
                  /\ namespace' = <<>>
                  /\ stdout' = <<>>
                  /\ output' = None
                  /\ exc_info' = NoExc
                  /\ invoked' = 0
                  /\ ran' = FALSE
                  /\ report' = <<>>
                  /\ escaped' = "None"
    /\ UNCHANGED <<files, store_dir>>
    /\ UNCHANGED outsideFixture

NextFixture ==
    \/ StoreExecute
    \/ TestExecute
    \/ ValidateCode
    \/ ExecCode
    \/ CallFunction
    \/ CompareResult

SpecFixture == InitFixture /\ [][NextFixture]_vars

(***************************************************************************)
(* Claims about the fixture capabilities                                   *)
(***************************************************************************)
\* the fixture the storage capability wrote for a name
StoredFor(n) == <<StoreDir, FileStem(n)>>

\* the last call was a validation call
ValidationCalled == fixture_call.tool = "test_proposed_strategy"

\* C24 as stated: once StoreExpectedAgendas.execute has stored a list for a
\* subject, a call of TestProposedStrategyTool.execute for the same subject
\* reads exactly the list stored last as its expected result
C24_FixtureRoundTrip ==
    (ValidationCalled /\ StoredFor(fixture_call.name) \in DOMAIN files)
        => /\ fixture_call.expected = JsonLoad(files[StoredFor(fixture_call.name)])
           /\ fixture_call.outcome \notin {"UnboundLocalError"}

\* C25 as stated: a validation call for a subject without fixture file
\* fails without executing the proposed code; a validation call for a
\* subject with a fixture file, an empty list included, enters run_test_case
\* and returns its report (read for the directory the validation capability
\* reads, whoever put the file there)
C25_MissingFixtureFatalElseValidated ==
    ValidationCalled
        => IF <<ReadDir, FileStem(fixture_call.name)>> \in DOMAIN files
           THEN /\ fixture_call.outcome = "run_test_case"
                /\ hpc = "done" => report # <<>>
           ELSE /\ fixture_call.outcome = "UnboundLocalError"
                /\ hpc = "idle"
                /\ ran = FALSE


(***************************************************************************)
(* Part 6: the scraping capability, src/tools/site_scraper.py              *)
(* (Bs4SiteScraperTool.execute). The awaits of execute precede line 97;    *)
(* from there to the return nothing else runs, so one call is one action.  *)
(***************************************************************************)
\* most anchors and text elements of a page, taken together
MaxNodes == 2

\* line 184: a text block is kept when it is longer than this
MinBlobLen == 70

\* the anchors of pages: href and display text
Anchors ==
    {[url |-> "/a", text |-> "Agendas"],
     [url |-> "/b", text |-> "Agendas"],
     [url |-> "/m", text |-> "Minutes"]}

\* the link pairs a result can hold
LinkPairs == {a \in Anchors : a.url # "" /\ a.text # ""}

\* text.lower() of a display text, keyword.lower() of a filter term
LowerCase(t) ==
    CASE t = "Agendas" -> "agendas"
      [] t = "Minutes" -> "minutes"
      [] t = "AGENDA" -> "agenda"
      [] OTHER -> t

\* a in b for lower-case texts
Within(a, b) == a = b \/ (a = "agenda" /\ b = "agendas")

\* the texts of page elements with their lengths
BlobTexts == {"t71", "t200", "t70"}

TextLen(t) ==
    CASE t = "t71" -> MinBlobLen + 1
      [] t = "t200" -> MinBlobLen + 130
      [] OTHER -> MinBlobLen

\* the elements soup.find_all(tags) yields: the text, and whether one of
\* the filters of lines 145-182 drops the element (a nav-like class, a
\* nested element of the tags, only links and scripts, a div inside an a)
Elements ==
    {[text |-> "t71", dropped |-> FALSE],
     [text |-> "t200", dropped |-> FALSE],
     [text |-> "t70", dropped |-> FALSE],
     [text |-> "t71", dropped |-> TRUE]}

\* what line 101 makes of the page's title element: its string, or
\* "No title" without the element
Titles == {"Town", "No title"}

\* the pages a request can bring: at most n anchors and elements
Pages(n) ==
    UNION {[title : Titles,
            anchors : [1..k -> Anchors],
            elements : UNION {[1..m -> Elements] : m \in 0..(n - k)}] :
           k \in 0..n}

\* params.get with the defaults of lines 58-60; extract_navigation is what
\* the caller passed under that key
Params4(links, body, navigation) ==
    [url |-> "u1", extract_links |-> links, extract_body_text |-> body,
     extract_navigation |-> navigation]

\* the params of execute calls: the url alone, one extraction, and the
\* params of test_execute_with_extractions with all three
ScrapeParams ==
    {Params4(<<>>, FALSE, FALSE),
     Params4(<<"AGENDA">>, FALSE, FALSE),
     Params4(<<>>, TRUE, FALSE),
     Params4(<<"AGENDA">>, TRUE, TRUE)}

\* the elements of a sequence
Members(seq) == {seq[i] : i \in DOMAIN seq}

\* mutant: no link counts as handed out before
SeenNever(prev, pair) == FALSE

\* lines 124-130: the pair is in previous_urls
SeenBefore(prev, pair) ==
    \E i \in DOMAIN prev : prev[i].url = pair.url /\ prev[i].text = pair.text

\* lines 114-121: some filter term is in the display text, case ignored
MatchesFilter(keywords, text) ==
    \E i \in DOMAIN keywords : Within(LowerCase(keywords[i]), LowerCase(text))

RECURSIVE ExtractLinks(_, _, _, _)
\* lines 105-134: the loop over the anchors, from the lists so far to the
\* lists after it
ExtractLinks(anchors, keywords, prev, links) ==
    IF anchors = <<>> THEN [previous_urls |-> prev, links |-> links]
    ELSE LET a == Head(anchors) IN
         IF a.url = "" \/ a.text = "" \/ ~MatchesFilter(keywords, a.text)
            \/ SeenBefore(prev, a)
         THEN ExtractLinks(Tail(anchors), keywords, prev, links)
         ELSE ExtractLinks(Tail(anchors), keywords, Append(prev, a),
                           Append(links, a))

RECURSIVE ExtractText(_, _, _)
\* lines 161-188: the loop over the elements
ExtractText(elements, prev, main_text) ==
    IF elements = <<>> THEN [previous_text_blobs |-> prev, main_text |-> main_text]
    ELSE LET e == Head(elements) IN
         IF e.dropped \/ ~(TextLen(e.text) > MinBlobLen) \/ e.text \in Members(prev)
         THEN ExtractText(Tail(elements), prev, main_text)
         ELSE ExtractText(Tail(elements), Append(prev, e.text),
                          Append(main_text, e.text))

\* lines 98-205: the dict execute returns, with the sections the code adds
ResultOf(url, title, with_links, links, with_text, main_text) ==
    CASE with_links /\ with_text ->
           [url |-> url, title |-> title, links |-> links, main_text |-> main_text]
      [] with_links /\ ~with_text ->
           [url |-> url, title |-> title, links |-> links]
      [] ~with_links /\ with_text ->
           [url |-> url, title |-> title, main_text |-> main_text]
      [] OTHER -> [url |-> url, title |-> title]

\* how often x occurs in seq
CountIn(seq, x) == Cardinality({i \in DOMAIN seq : seq[i] = x})

\* __init__, lines 20-22
InitScraper ==
    /\ previous_urls = <<>>
    /\ previous_text_blobs = <<>>
    /\ scrape_params = [url |-> "", extract_links |-> <<>>,
                        extract_body_text |-> FALSE,
                        extract_navigation |-> FALSE]
    /\ scraped = [none |-> TRUE]
    /\ returned_links = [p \in LinkPairs |-> 0]
    /\ returned_texts = [t \in BlobTexts |-> 0]
    /\ EngineIdle
    /\ HarnessIdle
    /\ RegistryIdle
    /\ SaveIdle
    /\ FixtureIdle
    /\ WorkflowIdle
    /\ TasksIdle

\* execute, lines 56-95: the request fails or the status is not 200
ExecuteFails ==
    /\ \E ps \in ScrapeParams : scrape_params' = ps
    /\ scraped' = [error |-> "Failed to access URL"]
    /\ UNCHANGED <<previous_urls, previous_text_blobs, returned_links,
                   returned_texts>>
    /\ UNCHANGED outsideScraper

\* execute, lines 56-205, for a page that was fetched
Execute ==
    /\ \E ps \in ScrapeParams, page \in Pages(MaxNodes) :
          LET with_links == ps.extract_links # <<>>
              with_text == ps.extract_body_text
              l == IF with_links
                   THEN ExtractLinks(page.anchors, ps.extract_links,
                                     previous_urls, <<>>)
                   ELSE [previous_urls |-> previous_urls, links |-> <<>>]
              t == IF with_text
                   THEN ExtractText(page.elements, previous_text_blobs, <<>>)
                   ELSE [previous_text_blobs |-> previous_text_blobs,
                         main_text |-> <<>>]
          IN /\ scrape_params' = ps
             /\ previous_urls' = l.previous_urls
             /\ previous_text_blobs' = t.previous_text_blobs
             /\ scraped' = ResultOf(ps.url, page.title, with_links, l.links,
                                    with_text, t.main_text)
             /\ returned_links' =
                   [p \in LinkPairs |-> returned_links[p] + CountIn(l.links, p)]
             /\ returned_texts' =
                   [b \in BlobTexts |-> returned_texts[b] + CountIn(t.main_text, b)]
    /\ UNCHANGED outsideScraper

NextScraper ==
    \/ ExecuteFails
    \/ Execute

SpecScraper == InitScraper /\ [][NextScraper]_vars

(***************************************************************************)
(* The scraper across the orchestration tasks of one process               *)
(***************************************************************************)
\* most orchestration tasks started in one process
MaxTasks == 2

\* the process has started no task; GENERAL_TOOLS of read_website.py (line
\* 23) holds the Bs4SiteScraperTool instance made when the module was
\* loaded, a TaskHandler is not yet constructed
InitTasks ==
    /\ task = 0
    /\ tools_from = "none"
    /\ previous_urls = <<>>
    /\ previous_text_blobs = <<>>
    /\ scrape_params = [url |-> "", extract_links |-> <<>>,
                        extract_body_text |-> FALSE,
                        extract_navigation |-> FALSE]
    /\ scraped = [none |-> TRUE]
    /\ returned_links = [p \in LinkPairs |-> 0]
    /\ returned_texts = [t \in BlobTexts |-> 0]
    /\ EngineIdle
    /\ HarnessIdle
    /\ RegistryIdle
    /\ SaveIdle
    /\ FixtureIdle
    /\ WorkflowIdle

\* find_town_orgs, find_org_meeting_details or
\* find_org_agenda_fetching_strategy starts (read_website.py lines 169,
\* 212, 305-309): its table is {**GENERAL_TOOLS, ...}, which holds the one
\* scraper instance of the module, with the lists as the tasks before left
\* them
FindTaskStarts ==
    /\ task < MaxTasks
    /\ tools_from \in {"none", "GENERAL_TOOLS"}
    /\ task' = task + 1
    /\ tools_from' = "GENERAL_TOOLS"
    /\ UNCHANGED scraperVars
    /\ UNCHANGED outsideTasks

\* a TaskHandler is constructed and run (task_handler.py line 38 and
\* site_scraper.py lines 20-22): t() makes a scraper with empty lists
NewHandlerRuns ==
    /\ task < MaxTasks
    /\ tools_from \in {"none", "TaskHandler"}
    /\ task' = task + 1
    /\ tools_from' = "TaskHandler"
    /\ previous_urls' = <<>>
    /\ previous_text_blobs' = <<>>
    /\ scrape_params' = [url |-> "", extract_links |-> <<>>,
                         extract_body_text |-> FALSE,
                         extract_navigation |-> FALSE]
    /\ scraped' = [none |-> TRUE]
    /\ returned_links' = [p \in LinkPairs |-> 0]
    /\ returned_texts' = [t \in BlobTexts |-> 0]
    /\ UNCHANGED outsideTasks

\* run is called again on a TaskHandler (task_handler.py lines 78-96):
\* self.tools, made by the constructor, is not touched
SameHandlerRuns ==
    /\ task < MaxTasks
    /\ tools_from = "TaskHandler"
    /\ task' = task + 1
    /\ UNCHANGED tools_from
    /\ UNCHANGED scraperVars
    /\ UNCHANGED outsideTasks

\* the running task executes the scraper
TaskExecute == task >= 1 /\ Execute

TaskExecuteFails == task >= 1 /\ ExecuteFails

NextTasks ==
    \/ FindTaskStarts
    \/ NewHandlerRuns
    \/ SameHandlerRuns
    \/ TaskExecute
    \/ TaskExecuteFails

SpecTasks == InitTasks /\ [][NextTasks]_vars


(***************************************************************************)
(* Claims about the scraping capability                                    *)
(***************************************************************************)
\* a sequence without repeated elements
NoRepeats(seq) == \A i, j \in DOMAIN seq : seq[i] = seq[j] => i = j

\* seq is an initial part of longer
GrewFrom(seq, longer) ==
    /\ Len(seq) <= Len(longer)
    /\ SubSeq(longer, 1, Len(seq)) = seq

\* the call made last returned a result dict, not an error
Succeeded == DOMAIN scraped \notin {{"none"}, {"error"}}

\* C26: over all calls on one instance each link pair and each text block
\* was put in a result at most once (so in at most one result, and once in
\* it); the two lists of the instance hold no element twice, and a call
\* only appends to them
C26_EachLinkAndBlockReturnedOnce ==
    /\ [](/\ \A p \in LinkPairs : returned_links[p] <= 1
          /\ \A b \in BlobTexts : returned_texts[b] <= 1
          /\ NoRepeats(previous_urls)
          /\ NoRepeats(previous_text_blobs))
    /\ [][/\ GrewFrom(previous_urls, previous_urls')
          /\ GrewFrom(previous_text_blobs, previous_text_blobs')]_vars

\* C26 witness: after two link pairs and two text blocks were handed out,
\* a call that asked for links and text returned none of either
C26_Witness ==
    /\ Len(previous_urls) = 2
    /\ Len(previous_text_blobs) = 2
    /\ Succeeded
    /\ scrape_params.extract_links # <<>>
    /\ scrape_params.extract_body_text
    /\ scraped.links = <<>>
    /\ scraped.main_text = <<>>

\* C36 as stated: at the start of every orchestration task - a run of a
\* TaskHandler, a call of find_town_orgs, find_org_meeting_details or
\* find_org_agenda_fetching_strategy - the scraper of the task has seen no
\* link and no text block, so what an earlier task was handed is handed
\* out again
C36_DedupStateScopedToTask ==
    [][task' # task =>
          (previous_urls' = <<>> /\ previous_text_blobs' = <<>>)]_vars

\* C27 as stated: a call that succeeded returned the url asked for and a
\* title, a links list exactly when filter terms were given, a main_text
\* list exactly when extract_body_text was true, and a navigation list
\* exactly when extract_navigation was true
C27_OneSectionPerExtraction ==
    Succeeded
        => /\ scraped.url = scrape_params.url
           /\ "title" \in DOMAIN scraped
           /\ "links" \in DOMAIN scraped <=> scrape_params.extract_links # <<>>
           /\ "main_text" \in DOMAIN scraped <=> scrape_params.extract_body_text
           /\ "navigation" \in DOMAIN scraped <=> scrape_params.extract_navigation


(***************************************************************************)
(* Part 7: the workflow entry point, src/read_website.py                   *)
(* (the __main__ block, TownWebsiteAnalyzer.resume_from and run_workflow). *)
(* One action is one stretch of run_workflow between two awaits (a         *)
(* service task, a user prompt); the finally block of __main__ runs in the *)
(* step in which run_workflow is left.                                     *)
(***************************************************************************)
\* most committees of a town
MaxCommittees == 2

TownName == "Williston"

TownState == "VT"

\* a committee: a dict as the committee list task returns it, or a
\* Committee object; "None" is None, "{}" an empty dict, "" an empty text
CommitteeOf(form, skip, meeting, strategy, details) ==
    [form |-> form, skip_reason |-> skip, meeting_details |-> meeting,
     fetching_strategy |-> strategy, details |-> details]

\* the committees of snapshot files: untouched, skipped with a reason of
\* the list, skipped with an empty text for "Other", with meeting details
\* only, as run_workflow leaves a committee it worked on, with meeting
\* details and a fetching strategy, the same with empty meeting details
SnapshotCommittees ==
    {CommitteeOf("dict", "None", "None", "None", "None"),
     CommitteeOf("dict", "Inactive", "None", "None", "None"),
     CommitteeOf("dict", "", "None", "None", "None"),
     CommitteeOf("dict", "None", "details", "None", "None"),
     CommitteeOf("dict", "None", "details", "None", "found"),
     CommitteeOf("dict", "None", "details", "strategy", "found"),
     CommitteeOf("dict", "None", "{}", "strategy", "found")}

\* what json.dump writes at line 438
SnapshotOf(url, agendas, cs) ==
    [town_name |-> TownName, state |-> TownState, website_url |-> url,
     agendas_url |-> agendas, committees |-> cs]

\* the value None of the field committees, and a list
NoList == [isnone |-> TRUE, items |-> <<>>]

ListOf(cs) == [isnone |-> FALSE, items |-> cs]

\* the snapshot files a run can find
PriorSnapshots(n) ==
    {SnapshotOf(u, "None", cs) :
        u \in {"None", "w"},
        cs \in {NoList}
               \cup {ListOf(l) : l \in UNION {[1..k -> SnapshotCommittees] :
                                                k \in 0..n}}}

NoSnapshot == [town_name |-> "none"]

\* bool(v) for the values of the analyzer's fields
IsSet(v) == v \notin {"None", "", "{}"}

\* bool(self.committees)
HasItems(cs) == ~cs.isnone /\ cs.items # <<>>

\* json.dump with default=lambda o: o.__dict__ (line 438): a Committee
\* object is written as the dict of its fields
Serialize(cs) ==
    [cs EXCEPT !.items = [i \in DOMAIN cs.items |->
                             [cs.items[i] EXCEPT !.form = "dict"]]]

\* resume_from, lines 98-115: every dict of the list becomes a Committee
ResumeFrom(cs) ==
    [cs EXCEPT !.items = [i \in DOMAIN cs.items |->
                             [cs.items[i] EXCEPT !.form = "Committee"]]]

\* mutant: every committee is taken up
NeedsWorkAlways(c) == TRUE

\* line 343
NeedsWork(c) ==
    /\ ~IsSet(c.meeting_details) \/ ~IsSet(c.fetching_strategy)
    /\ ~IsSet(c.skip_reason)

\* run_workflow still runs
Running == [how |-> "running", failed |-> 0, wrote |-> FALSE]

\* mutant: the snapshot is written after a normal return only
FinallyOnReturn(how, url, agendas, cs, old) ==
    IF how = "returned" THEN SnapshotOf(url, agendas, Serialize(cs)) ELSE old

\* lines 433-438: the newest file of the directory after the finally block
Finally(how, url, agendas, cs, old) == SnapshotOf(url, agendas, Serialize(cs))

\* the analyzer is constructed (line 417); the directory holds no snapshot
\* of the schema version, or one
InitWorkflow ==
    /\ website_url = "None"
    /\ agendas_url = "None"
    /\ committees = NoList
    /\ wpc = "main"
    /\ position = 0
    /\ ended = Running
    /\ latest \in {NoSnapshot} \cup PriorSnapshots(MaxCommittees)
    /\ resumed = NoSnapshot
    /\ asked = {}
    /\ EngineIdle
    /\ HarnessIdle
    /\ RegistryIdle
    /\ SaveIdle
    /\ FixtureIdle
    /\ ScraperIdle
    /\ TasksIdle

\* run_workflow is left with `how` (a return or an exception), `failed`
\* the committee whose task raised; the finally block writes the snapshot
Leave(how, failed, url, agendas, cs) ==
    /\ wpc' = "exited"
    /\ ended' = [how |-> how, failed |-> failed,
                 wrote |-> Finally(how, url, agendas, cs, latest)
                           = SnapshotOf(url, agendas, Serialize(cs))]
    /\ latest' = Finally(how, url, agendas, cs, latest)

\* lines 418-432: resume from the newest snapshot, enter run_workflow
Resume ==
    /\ wpc = "main"
    /\ IF latest = NoSnapshot
       THEN UNCHANGED <<website_url, agendas_url, committees>>
       ELSE /\ website_url' = latest.website_url
            /\ agendas_url' = latest.agendas_url
            /\ committees' = ResumeFrom(latest.committees)
    /\ resumed' = latest
    /\ wpc' = "website"
    /\ UNCHANGED <<position, ended, latest, asked>>
    /\ UNCHANGED outsideWorkflow

\* lines 335-336 with find_town_website, lines 117-140
WebsiteStep ==
    /\ wpc = "website"
    /\ IF IsSet(website_url)
       THEN /\ wpc' = "orgs"
            /\ UNCHANGED <<website_url, ended, latest, asked>>
       ELSE /\ asked' = asked \cup {<<"website", 0>>}
            /\ \/ /\ website_url' = "w"
                  /\ wpc' = "orgs"
                  /\ UNCHANGED <<ended, latest>>
               \/ /\ Leave("Exception", 0, website_url, agendas_url, committees)
                  /\ UNCHANGED website_url
    /\ UNCHANGED <<agendas_url, committees, position, resumed>>
    /\ UNCHANGED outsideWorkflow

\* lines 338-339 with find_town_orgs, lines 142-191: the task returns a
\* list of dicts, or its exception is swallowed at line 190
OrgsStep ==
    /\ wpc = "orgs"
    /\ IF HasItems(committees)
       THEN UNCHANGED <<committees, agendas_url, asked>>
       ELSE /\ asked' = asked \cup {<<"orgs", 0>>}
            /\ \/ \E k \in 0..MaxCommittees :
                     /\ committees' =
                           ListOf([i \in 1..k |->
                                      CommitteeOf("dict", "None", "None",
                                                  "None", "None")])
                     /\ agendas_url' = "a"
               \/ UNCHANGED <<committees, agendas_url>>
    /\ wpc' = "loop"
    /\ position' = 1
    /\ UNCHANGED <<website_url, ended, latest, resumed>>
    /\ UNCHANGED outsideWorkflow

\* lines 342-343 for the committee at position: iterating None raises
\* TypeError, a dict has no attribute meeting_details
LoopStep ==
    /\ wpc = "loop"
    /\ IF committees.isnone
       THEN /\ Leave("TypeError", 0, website_url, agendas_url, committees)
            /\ UNCHANGED <<position, asked>>
       ELSE IF position > Len(committees.items)
       THEN /\ Leave("returned", 0, website_url, agendas_url, committees)
            /\ UNCHANGED <<position, asked>>
       ELSE IF committees.items[position].form = "dict"
       THEN /\ Leave("AttributeError", 0, website_url, agendas_url, committees)
            /\ UNCHANGED <<position, asked>>
       ELSE IF NeedsWork(committees.items[position])
       THEN /\ wpc' = "prompt"
            /\ asked' = asked \cup {<<"prompt", position>>}
            /\ UNCHANGED <<position, ended, latest>>
       ELSE /\ position' = position + 1
            /\ UNCHANGED <<wpc, asked, ended, latest>>
    /\ UNCHANGED <<website_url, agendas_url, committees, resumed>>
    /\ UNCHANGED outsideWorkflow

\* lines 355-378: the answer to the prompt. SkipReasonValidator accepts
\* "c" and the numbers of the reasons only, so "x" (line 366) is never
\* handed over; the user leaves with an interrupt, which prompt_async
\* raises. The second prompt of "Other" is part of the step
UserResponds ==
    /\ wpc = "prompt"
    /\ \/ /\ wpc' = "details"
          /\ UNCHANGED <<committees, position, ended, latest>>
       \/ \E reason \in {"Inactive", "custom", ""} :
             /\ committees' = [committees EXCEPT !.items[position].skip_reason = reason]
             /\ position' = position + 1
             /\ wpc' = "loop"
             /\ UNCHANGED <<ended, latest>>
       \/ /\ Leave("KeyboardInterrupt", 0, website_url, agendas_url, committees)
          /\ UNCHANGED <<committees, position>>
    /\ UNCHANGED <<website_url, agendas_url, resumed, asked>>
    /\ UNCHANGED outsideWorkflow

\* lines 380-381 with find_org_meeting_details, lines 193-230: the task
\* returns a result, or raises
DetailsStep ==
    /\ wpc = "details"
    /\ IF IsSet(committees.items[position].meeting_details)
       THEN /\ wpc' = "strategy"
            /\ UNCHANGED <<committees, ended, latest, asked>>
       ELSE /\ asked' = asked \cup {<<"details", position>>}
            /\ \/ \E r \in {"details", "{}"} :
                     /\ committees' =
                           [committees EXCEPT !.items[position].meeting_details = r]
                     /\ wpc' = "strategy"
                     /\ UNCHANGED <<ended, latest>>
               \/ /\ Leave("Exception", position, website_url, agendas_url,
                           committees)
                  /\ UNCHANGED committees
    /\ UNCHANGED <<website_url, agendas_url, position, resumed>>
    /\ UNCHANGED outsideWorkflow

\* lines 382-383 with find_org_agenda_fetching_strategy, lines 232-331:
\* the result goes to the field details (line 331)
StrategyStep ==
    /\ wpc = "strategy"
    /\ IF IsSet(committees.items[position].fetching_strategy)
       THEN /\ wpc' = "loop"
            /\ position' = position + 1
            /\ UNCHANGED <<committees, ended, latest, asked>>
       ELSE /\ asked' = asked \cup {<<"strategy", position>>}
            /\ \/ /\ committees' =
                        [committees EXCEPT !.items[position].details = "found"]
                  /\ wpc' = "loop"
                  /\ position' = position + 1
                  /\ UNCHANGED <<ended, latest>>
               \/ /\ Leave("Exception", position, website_url, agendas_url,
                           committees)
                  /\ UNCHANGED <<committees, position>>
    /\ UNCHANGED <<website_url, agendas_url, resumed>>
    /\ UNCHANGED outsideWorkflow

NextWorkflow ==
    \/ Resume
    \/ WebsiteStep
    \/ OrgsStep
    \/ LoopStep
    \/ UserResponds
    \/ DetailsStep
    \/ StrategyStep

SpecWorkflow == InitWorkflow /\ [][NextWorkflow]_vars

\* the first start of the program for a town: the output directory holds
\* no snapshot
InitFirstStart == InitWorkflow /\ latest = NoSnapshot

\* the program is started again after it has ended (lines 386-417): a new
\* analyzer is constructed, the output directory holds what the earlier
\* starts wrote
StartAgain ==
    /\ wpc = "exited"
    /\ website_url' = "None"
    /\ agendas_url' = "None"
    /\ committees' = NoList
    /\ wpc' = "main"
    /\ position' = 0
    /\ ended' = Running
    /\ resumed' = NoSnapshot
    /\ asked' = {}
    /\ UNCHANGED latest
    /\ UNCHANGED outsideWorkflow

NextRestart ==
    \/ Resume
    \/ WebsiteStep
    \/ OrgsStep
    \/ LoopStep
    \/ UserResponds
    \/ DetailsStep
    \/ StrategyStep
    \/ StartAgain

\* the program started for a town again and again, each start resuming
\* from the snapshot the start before it wrote
SpecRestart == InitFirstStart /\ [][NextRestart]_vars


(***************************************************************************)
(* Claims about the workflow entry point                                   *)
(***************************************************************************)
\* a field of a snapshot holds something
Present(v) == v \notin {"None", "", "{}"}

\* a committee of a snapshot that needs no more work: it has a skip
\* reason, or both meeting details and a fetching strategy
Resolved(c) ==
    \/ Present(c.skip_reason)
    \/ Present(c.meeting_details) /\ Present(c.fetching_strategy)

\* the prompts and service tasks about committee i
WorkOn(i) == {e \in asked : e[2] = i}

\* C28: once run_workflow was entered and left - by a return, by the
\* user's interrupt, by an exception - the output directory's newest
\* snapshot was written by this run and holds the town name, the state, the
\* website url, the agendas url and the committees with everything found
\* up to that point
C28_SnapshotAlwaysWritten ==
    wpc = "exited"
        => /\ ended.wrote
           /\ latest.town_name = TownName
           /\ latest.state = TownState
           /\ latest.website_url = website_url
           /\ latest.agendas_url = agendas_url
           /\ latest.committees.isnone = committees.isnone
           /\ Len(latest.committees.items) = Len(committees.items)
           /\ \A i \in DOMAIN committees.items :
                 /\ latest.committees.items[i].skip_reason
                       = committees.items[i].skip_reason
                 /\ latest.committees.items[i].meeting_details
                       = committees.items[i].meeting_details
                 /\ latest.committees.items[i].fetching_strategy
                       = committees.items[i].fetching_strategy
                 /\ latest.committees.items[i].details
                       = committees.items[i].details

\* C28 witness: a run found the meeting details of the first committee and
\* was then left by the exception of a task of the second
C28_Witness ==
    /\ wpc = "exited"
    /\ ended.how = "Exception"
    /\ ended.failed = 2
    /\ resumed # NoSnapshot
    /\ resumed.committees.items[1].meeting_details = "None"
    /\ committees.items[1].meeting_details = "details"
    /\ latest.committees.items[1].meeting_details = "details"

\* C29 as stated: when a task of one committee (its meeting details, its
\* fetching strategy) raises, run_workflow goes on to the committees after
\* it and is left by its return at the end of the list
C29_CommitteeFailureIsolated ==
    (wpc = "exited" /\ ended.failed # 0)
        => /\ ended.how = "returned"
           /\ position > Len(committees.items)

\* both tasks of the committee have completed in an earlier start: the
\* snapshot holds the result of find_org_meeting_details and the result of
\* find_org_agenda_fetching_strategy
BothCompleted(c) == c.meeting_details # "None" /\ c.details # "None"

\* C39 as stated: a committee for which find_org_meeting_details and
\* find_org_agenda_fetching_strategy have both completed is resolved: a
\* later run_workflow, resumed from the snapshot, neither prompts for it
\* nor starts a task about it
C39_CompletedWorkNotRedone ==
    resumed # NoSnapshot
        => \A i \in DOMAIN resumed.committees.items :
              BothCompleted(resumed.committees.items[i]) => WorkOn(i) = {}

=============================================================================
